---- MODULE Spec2Model ----
(***************************************************************************)
(* Model of skills/codeWithSnow/scripts/snow_client.py: the SSE client's   *)
(* message operation (SimpleSnowSSEClient._run_message_operation), its     *)
(* Reader thread (_event_reader_loop), the Correlator (_handle_data_block, *)
(* _mark_complete_if_needed, _build_result) and teardown                   *)
(* (_close_event_stream).                                                  *)
(***************************************************************************)
EXTENDS Naturals, Sequences, FiniteSets, TLC

VARIABLES
    pc,        \* position of the Orchestrator thread in _run_message_operation
    op,        \* arguments of the running message operation
    rt,        \* the client's runtime fields (the Correlator state and the two signals)
    handles,   \* _stream_response, _stream_sock, _reader_thread
    reader,    \* state of the Reader thread
    post,      \* state of the POST /message thread (post_done, boxes, post_response_checked)
    td,        \* locals of _close_event_stream and the state of the stream it closes
    sent,      \* the HTTP requests issued by the operation, in order
    result,    \* the ClientResult of the return statement / except clause
    hist,      \* observations of the run (what the claims speak about)
    stale,     \* the Reader thread of the previous message operation of this client
    cli        \* the command-line invocation: main, validate_args, run_command

vars == <<pc, op, rt, handles, reader, post, td, sent, result, hist, stale, cli>>

-----------------------------------------------------------------------------
(* Values.  Python's None is NoneS where a string is expected, None where  *)
(* a dict is expected and NoneL where a list is expected; a dict is a      *)
(* function on its keys, a list is a sequence.                             *)

NoneS == "<None>"
None == [none |-> TRUE]
NoneL == <<NoneS>>
EmptyMap == <<>>

\* dict.get(k) for a string-valued key
GetS(d, k) == IF k \in DOMAIN d THEN d[k] ELSE NoneS

\* isinstance(dict.get(k), list) or isinstance(dict.get(k), dict), for a key
\* that holds a list or a dict when it is there
Has(d, k) == k \in DOMAIN d

\* bool(dict.get(k)) for a boolean-valued key
GetB(d, k) == IF k \in DOMAIN d THEN d[k] ELSE FALSE

\* truthiness of an optional string
Truthy(s) == s # NoneS /\ s # ""

\* str(x) of an optional string: str(None) is the text "None"
Str(s) == IF s = NoneS THEN "None" ELSE s

\* x or y, on optional strings
OrS(x, y) == IF Truthy(x) THEN x ELSE y

-----------------------------------------------------------------------------
(* The ClientResult dataclass, with its field defaults.                    *)

ClientResult ==
    [status |-> "", session_id |-> NoneS, messages |-> <<>>, usage |-> EmptyMap,
     error_code |-> NoneS, message |-> NoneS, suggestion |-> NoneS,
     request_id |-> NoneS, request_data |-> None, agents |-> NoneL,
     current_agent_id |-> NoneS, available_agents |-> NoneL]

NoResult == [status |-> "<no result>"]

StatusSet == {"success", "requires_confirmation", "requires_question", "error"}

-----------------------------------------------------------------------------
(* The runtime fields of the client, as __init__ leaves them.              *)

InitRuntime ==
    [connected_event |-> FALSE, completed_event |-> FALSE,
     completion_events |-> {}, connection_id |-> NoneS, session_id |-> NoneS,
     messages |-> <<>>, assistant_final_content |-> "",
     assistant_stream_content |-> "", usage |-> EmptyMap, error |-> None,
     pending_request |-> None, final_event |-> None, agent_list_data |-> None,
     agent_switched_data |-> None, rollback_result_data |-> None,
     outbound_image_names |-> <<>>]

\* _reset_runtime_state: the fields a new operation starts from
ResetRuntimeState(session_id, completion_events, outbound_image_names) ==
    [InitRuntime EXCEPT !.completion_events = completion_events,
                        !.session_id = session_id,
                        !.outbound_image_names = outbound_image_names]

-----------------------------------------------------------------------------
(* SSE data blocks.  A block is text that is not JSON ("invalid"), JSON    *)
(* that is not an object ("nonobject"), or a JSON object {type, data,      *)
(* requestId}; dkind tells whether its data is a dict, a (non-empty)       *)
(* string (held in data.text), or absent.                                  *)

Ev(type, data, requestId) ==
    [json |-> "object", type |-> type, dkind |-> "dict", data |-> data,
     requestId |-> requestId]

EvConnected == Ev("connected", [connectionId |-> "c1"], NoneS)
EvConnectedNoId == Ev("connected", EmptyMap, NoneS)
EvUser == Ev("message", [role |-> "user", content |-> "hi"], NoneS)
EvUserEmpty == Ev("message", [role |-> "user", content |-> ""], NoneS)
EvSystem == Ev("message", [role |-> "system", sessionId |-> "s2"], NoneS)
EvStreamA == Ev("message", [role |-> "assistant", content |-> "a", streaming |-> TRUE], NoneS)
EvStreamAB == Ev("message", [role |-> "assistant", content |-> "ab", streaming |-> TRUE], NoneS)
EvFinal == Ev("message", [role |-> "assistant", content |-> "f"], NoneS)
EvFinalEmpty == Ev("message", [role |-> "assistant", content |-> ""], NoneS)
EvUsage == Ev("usage", [tokens |-> "1"], NoneS)
EvConfirm == Ev("tool_confirmation_request", [toolCall |-> "t"], "r1")
EvQuestion == Ev("user_question_request", [question |-> "q"], "r2")
EvAgentList == Ev("agent_list", [agents |-> <<"g1">>, currentAgentId |-> "g1"], NoneS)
EvAgentListBad == Ev("agent_list", [currentAgentId |-> "g1"], NoneS)
EvAgentSwitched == Ev("agent_switched", [currentAgentId |-> "g2", agentName |-> "G2"], NoneS)
EvRollbackOk == Ev("rollback_result", [success |-> TRUE], NoneS)
EvRollbackFail ==
    Ev("rollback_result", [success |-> FALSE, error |-> "conflict", sessionId |-> "s1"], NoneS)
EvError == Ev("error", [message |-> "boom", errorCode |-> "bad_request"], NoneS)
EvErrorAgents == Ev("error", [message |-> "no agent", availableAgents |-> <<"g1">>], NoneS)
EvErrorText ==
    [json |-> "object", type |-> "error", dkind |-> "str", data |-> [text |-> "boom"],
     requestId |-> NoneS]
EvComplete == Ev("complete", [sessionId |-> "s2", usage |-> [tokens |-> "2"]], NoneS)
EvCompleteBare ==
    [json |-> "object", type |-> "complete", dkind |-> "absent", data |-> EmptyMap,
     requestId |-> NoneS]
EvInvalid == [json |-> "invalid"]
EvNonObject == [json |-> "nonobject"]

\* isinstance(data, dict), for the local `data` of _handle_data_block: an
\* absent data becomes {}
IsDict(ev) == ev.dkind # "str"

\* (mutant) the completion signal is set without the final-event record
MarkCompleteSignalOnly(s, event_type, data, request_id) ==
    IF event_type \notin s.completion_events
    THEN s
    ELSE [s EXCEPT !.completed_event = TRUE]

\* _mark_complete_if_needed
MarkCompleteIfNeeded(s, event_type, data, request_id) ==
    IF event_type \notin s.completion_events
    THEN s
    ELSE [s EXCEPT !.final_event =
                       [type |-> event_type, data |-> data, request_id |-> request_id],
                   !.completed_event = TRUE]

\* (mutant) streaming assistant content is appended to the buffer
HandleMessageAppendsStream(s, data) ==
    LET role == GetS(data, "role")
        raw_content == GetS(data, "content")
        content == IF raw_content = NoneS THEN "" ELSE raw_content
    IN  IF role = "system" /\ Truthy(GetS(data, "sessionId"))
        THEN [s EXCEPT !.session_id = data.sessionId]
        ELSE IF role = "user" /\ content # ""
        THEN LET user_message ==
                     IF s.outbound_image_names # <<>>
                     THEN [role |-> "user", content |-> content,
                           images |-> s.outbound_image_names]
                     ELSE [role |-> "user", content |-> content]
             IN  [s EXCEPT !.messages = Append(@, user_message)]
        ELSE IF role = "assistant"
        THEN IF GetB(data, "streaming")
             THEN [s EXCEPT !.assistant_stream_content = @ \o content]
             ELSE [s EXCEPT !.assistant_final_content = content]
        ELSE s

\* (mutant) the user entry never names the attached images
HandleMessageWithoutImages(s, data) ==
    LET role == GetS(data, "role")
        raw_content == GetS(data, "content")
        content == IF raw_content = NoneS THEN "" ELSE raw_content
    IN  IF role = "system" /\ Truthy(GetS(data, "sessionId"))
        THEN [s EXCEPT !.session_id = data.sessionId]
        ELSE IF role = "user" /\ content # ""
        THEN LET user_message == [role |-> "user", content |-> content]
             IN  [s EXCEPT !.messages = Append(@, user_message)]
        ELSE IF role = "assistant"
        THEN IF GetB(data, "streaming")
             THEN [s EXCEPT !.assistant_stream_content = content]
             ELSE [s EXCEPT !.assistant_final_content = content]
        ELSE s

\* the `message` branch of _handle_data_block (data is a dict)
HandleMessage(s, data) ==
    LET role == GetS(data, "role")
        raw_content == GetS(data, "content")
        content == IF raw_content = NoneS THEN "" ELSE raw_content
    IN  IF role = "system" /\ Truthy(GetS(data, "sessionId"))
        THEN [s EXCEPT !.session_id = data.sessionId]
        ELSE IF role = "user" /\ content # ""
        THEN LET user_message ==
                     IF s.outbound_image_names # <<>>
                     THEN [role |-> "user", content |-> content,
                           images |-> s.outbound_image_names]
                     ELSE [role |-> "user", content |-> content]
             IN  [s EXCEPT !.messages = Append(@, user_message)]
        ELSE IF role = "assistant"
        THEN IF GetB(data, "streaming")
             THEN [s EXCEPT !.assistant_stream_content = content]
             ELSE [s EXCEPT !.assistant_final_content = content]
        ELSE s

\* (mutant) the error code of the event is stored as it came
HandleErrorNoDefault(s, ev) ==
    LET isd == IsDict(ev)
        error_message == IF isd THEN GetS(ev.data, "message") ELSE ev.data.text
        error_code == IF isd THEN GetS(ev.data, "errorCode") ELSE NoneS
        has_agents == isd /\ Has(ev.data, "availableAgents")
        base == [error_code |-> error_code,
                 message |-> OrS(error_message, "sse_server_error")]
        err == IF has_agents
               THEN [error_code |-> base.error_code, message |-> base.message,
                     available_agents |-> ev.data.availableAgents]
               ELSE base
    IN  MarkCompleteIfNeeded([s EXCEPT !.error = err], "error",
                             IF isd THEN ev.data ELSE EmptyMap, ev.requestId)

\* the `error` branch of _handle_data_block (data may be a string)
HandleError(s, ev) ==
    LET isd == IsDict(ev)
        error_message == IF isd THEN GetS(ev.data, "message") ELSE ev.data.text
        error_code == IF isd THEN GetS(ev.data, "errorCode") ELSE NoneS
        has_agents == isd /\ Has(ev.data, "availableAgents")
        base == [error_code |-> OrS(error_code, "server_error"),
                 message |-> OrS(error_message, "sse_server_error")]
        err == IF has_agents
               THEN [error_code |-> base.error_code, message |-> base.message,
                     available_agents |-> ev.data.availableAgents]
               ELSE base
    IN  MarkCompleteIfNeeded([s EXCEPT !.error = err], "error",
                             IF isd THEN ev.data ELSE EmptyMap, ev.requestId)

\* (mutant) the request id of the event is not kept
PendingRequestWithoutId(status, request_id, data) ==
    [status |-> status, request_id |-> NoneS, request_data |-> data]

\* the pending interactive request stored for a confirmation or question event
PendingRequest(status, request_id, data) ==
    [status |-> status, request_id |-> request_id, request_data |-> data]

\* _handle_data_block on a JSON object
HandleObject(s, ev) ==
    LET t == ev.type
        d == ev.data
        rid == ev.requestId
        isd == IsDict(ev)
    IN  IF t = "connected"
        THEN LET connection_id == IF isd THEN GetS(d, "connectionId") ELSE NoneS
             IN  [s EXCEPT !.connection_id = IF Truthy(connection_id)
                                             THEN connection_id ELSE @,
                           !.connected_event = TRUE]
        ELSE IF t = "message" /\ isd THEN HandleMessage(s, d)
        ELSE IF t = "usage" /\ isd THEN [s EXCEPT !.usage = d]
        ELSE IF t = "tool_confirmation_request" /\ isd
        THEN MarkCompleteIfNeeded(
                 [s EXCEPT !.pending_request =
                               PendingRequest("requires_confirmation", rid, d)],
                 t, d, rid)
        ELSE IF t = "user_question_request" /\ isd
        THEN MarkCompleteIfNeeded(
                 [s EXCEPT !.pending_request =
                               PendingRequest("requires_question", rid, d)],
                 t, d, rid)
        ELSE IF t = "agent_list" /\ isd
        THEN MarkCompleteIfNeeded(
                 [s EXCEPT !.agent_list_data = d,
                           !.pending_request = IF Has(d, "agents")
                                               THEN None ELSE @],
                 t, d, rid)
        ELSE IF t = "agent_switched" /\ isd
        THEN MarkCompleteIfNeeded([s EXCEPT !.agent_switched_data = d], t, d, rid)
        ELSE IF t = "rollback_result" /\ isd
        THEN MarkCompleteIfNeeded([s EXCEPT !.rollback_result_data = d], t, d, rid)
        ELSE IF t = "error" THEN HandleError(s, ev)
        ELSE IF t = "complete" /\ isd
        THEN MarkCompleteIfNeeded(
                 [s EXCEPT !.session_id = IF Truthy(GetS(d, "sessionId"))
                                          THEN d.sessionId ELSE @,
                           !.usage = IF Has(d, "usage") THEN d.usage ELSE @],
                 t, d, rid)
        ELSE s

\* (mutant) invalid JSON raises like any other failure of the block
HandleDataBlockInvalidRaises(s, ev) ==
    IF ev.json = "invalid" THEN [rt |-> s, raised |-> TRUE]
    ELSE IF ev.json = "nonobject" THEN [rt |-> s, raised |-> TRUE]
    ELSE [rt |-> HandleObject(s, ev), raised |-> FALSE]

\* (mutant) a JSON value that is not an object is ignored like invalid JSON
HandleDataBlockNonObjectIgnored(s, ev) ==
    IF ev.json = "invalid" THEN [rt |-> s, raised |-> FALSE]
    ELSE IF ev.json = "nonobject" THEN [rt |-> s, raised |-> FALSE]
    ELSE [rt |-> HandleObject(s, ev), raised |-> FALSE]

\* _handle_data_block: invalid JSON is ignored; a JSON value that is not an
\* object has no .get, and the call raises
HandleDataBlock(s, ev) ==
    IF ev.json = "invalid" THEN [rt |-> s, raised |-> FALSE]
    ELSE IF ev.json = "nonobject" THEN [rt |-> s, raised |-> TRUE]
    ELSE [rt |-> HandleObject(s, ev), raised |-> FALSE]

-----------------------------------------------------------------------------
(* _build_result.                                                          *)

\* the typed result of a terminal agent_list event
AgentListResult(s) ==
    [ClientResult EXCEPT
        !.status = "success", !.session_id = s.session_id,
        !.agents = IF Has(s.agent_list_data, "agents")
                   THEN s.agent_list_data.agents ELSE <<>>,
        !.current_agent_id = GetS(s.agent_list_data, "currentAgentId")]

\* the typed result of a terminal agent_switched event
AgentSwitchedResult(s) ==
    [ClientResult EXCEPT
        !.status = "success", !.session_id = s.session_id,
        !.current_agent_id = GetS(s.agent_switched_data, "currentAgentId"),
        !.message = IF Truthy(GetS(s.agent_switched_data, "agentName"))
                    THEN "agent switched to " \o s.agent_switched_data.agentName
                    ELSE "agent switched"]

\* (mutant) the success flag of the rollback payload is not looked at
RollbackResultIgnoresFlag(s) ==
    [ClientResult EXCEPT
        !.status = "success",
        !.session_id = Str(OrS(GetS(s.rollback_result_data, "sessionId"), s.session_id)),
        !.request_data = s.rollback_result_data, !.message = "rollback done"]

\* the typed result of a terminal rollback_result event
RollbackResult(s) ==
    LET d == s.rollback_result_data
        sid == Str(OrS(GetS(d, "sessionId"), s.session_id))
    IN  IF GetB(d, "success")
        THEN [ClientResult EXCEPT
                 !.status = "success", !.session_id = sid, !.request_data = d,
                 !.message = "rollback done"]
        ELSE [ClientResult EXCEPT
                 !.status = "error", !.session_id = sid,
                 !.error_code = "rollback_failed",
                 !.message = OrS(GetS(d, "error"), "rollback failed"),
                 !.request_data = d]

\* the generic success result: the user messages and one assistant entry
GenericResult(s) ==
    LET assistant_content ==
            IF s.assistant_final_content # "" THEN s.assistant_final_content
            ELSE s.assistant_stream_content
        merged_messages ==
            IF assistant_content # ""
            THEN Append(s.messages, [role |-> "assistant", content |-> assistant_content])
            ELSE s.messages
    IN  [ClientResult EXCEPT
            !.status = "success", !.session_id = s.session_id,
            !.messages = merged_messages, !.usage = s.usage]

FinalIs(s, type) == s.final_event # None /\ s.final_event.type = type

\* the Result of a stored pending request
PendingResult(s) ==
    [ClientResult EXCEPT
        !.status = s.pending_request.status, !.session_id = s.session_id,
        !.messages = s.messages, !.usage = s.usage,
        !.request_id = s.pending_request.request_id,
        !.request_data = s.pending_request.request_data]

\* the Result of a stored error
ErrorResult(s) ==
    [ClientResult EXCEPT
        !.status = "error", !.session_id = s.session_id,
        !.messages = s.messages, !.usage = s.usage,
        !.error_code = s.error.error_code, !.message = s.error.message,
        !.available_agents = IF Has(s.error, "available_agents")
                             THEN s.error.available_agents ELSE NoneL]

\* (mutant) a stored error is looked at before a stored pending request
BuildResultErrorFirst(s) ==
    IF s.error # None THEN ErrorResult(s)
    ELSE IF s.pending_request # None THEN PendingResult(s)
    ELSE IF FinalIs(s, "agent_list") /\ s.agent_list_data # None
    THEN AgentListResult(s)
    ELSE IF FinalIs(s, "agent_switched") /\ s.agent_switched_data # None
    THEN AgentSwitchedResult(s)
    ELSE IF FinalIs(s, "rollback_result") /\ s.rollback_result_data # None
    THEN RollbackResult(s)
    ELSE GenericResult(s)

BuildResult(s) ==
    IF s.pending_request # None THEN PendingResult(s)
    ELSE IF s.error # None THEN ErrorResult(s)
    ELSE IF FinalIs(s, "agent_list") /\ s.agent_list_data # None
    THEN AgentListResult(s)
    ELSE IF FinalIs(s, "agent_switched") /\ s.agent_switched_data # None
    THEN AgentSwitchedResult(s)
    ELSE IF FinalIs(s, "rollback_result") /\ s.rollback_result_data # None
    THEN RollbackResult(s)
    ELSE GenericResult(s)

-----------------------------------------------------------------------------
(* Exceptions and the except clauses of _run_message_operation.            *)

ExcTimeout(msg) == [type |-> "TimeoutError", msg |-> msg]
ExcURL == [type |-> "URLError", msg |-> "unreachable"]
\* urllib's HTTPError (a subclass of URLError) with its status code; msg is the
\* text _http_error_to_result takes from it: the body's error, else the body's
\* message, else "HTTP <code>: <reason>"
HTTPError(code, msg) == [type |-> "HTTPError", code |-> code, msg |-> msg]
ExcHTTP == HTTPError(500, "HTTP 500: Internal Server Error")
ExcRuntime(msg) == [type |-> "RuntimeError", msg |-> msg]
\* response.get on a JSON answer that is not an object
ExcAttribute == [type |-> "AttributeError", msg |-> "object has no attribute 'get'"]

\* "Session not found" in msg, "No active connection" in msg: the texts a
\* server answers with
SessionNotFoundTexts == {"Session not found", "Session not found: s1"}
NoActiveConnectionTexts == {"No active connection"}

\* _http_error_to_result
HttpErrorToResult(exc) ==
    IF exc.code = 404 /\ exc.msg \in SessionNotFoundTexts
    THEN [ClientResult EXCEPT !.status = "error", !.error_code = "session_not_found",
                              !.message = "session not found: " \o exc.msg]
    ELSE IF exc.code = 400 /\ exc.msg \in SessionNotFoundTexts
    THEN [ClientResult EXCEPT !.status = "error", !.error_code = "session_not_found",
                              !.message = "session not found or connection closed: " \o exc.msg]
    ELSE IF exc.msg \in NoActiveConnectionTexts
    THEN [ClientResult EXCEPT !.status = "error", !.error_code = "connection_failed",
                              !.message = exc.msg,
                              !.suggestion = "start the SSE server"]
    ELSE [ClientResult EXCEPT !.status = "error", !.error_code = "server_error",
                              !.message = exc.msg]

\* (mutant) the suggestion is made of the exception
ConnectionFailedResultSuggestsExc(exc) ==
    [ClientResult EXCEPT !.status = "error", !.error_code = "connection_failed",
                         !.message = "cannot connect: " \o exc.msg,
                         !.suggestion = "start the SSE server: " \o exc.msg]

\* _connection_failed_result
ConnectionFailedResult(exc) ==
    [ClientResult EXCEPT !.status = "error", !.error_code = "connection_failed",
                         !.message = "cannot connect: " \o exc.msg,
                         !.suggestion = "start the SSE server"]

\* (mutant) on a timeout a stored error is returned in place of the timeout
ExceptResultStoredError(exc, s) ==
    IF exc.type = "TimeoutError"
    THEN IF s.error # None THEN ErrorResult(s)
         ELSE [ClientResult EXCEPT !.status = "error", !.session_id = s.session_id,
                                   !.error_code = "timeout", !.message = exc.msg]
    ELSE IF exc.type = "HTTPError" THEN HttpErrorToResult(exc)
    ELSE IF exc.type = "URLError" THEN ConnectionFailedResult(exc)
    ELSE [ClientResult EXCEPT !.status = "error", !.session_id = s.session_id,
                              !.error_code = "unexpected_error", !.message = exc.msg]

\* the except clauses of _run_message_operation, in their order
ExceptResult(exc, s) ==
    IF exc.type = "TimeoutError"
    THEN [ClientResult EXCEPT !.status = "error", !.session_id = s.session_id,
                              !.error_code = "timeout", !.message = exc.msg]
    ELSE IF exc.type = "HTTPError" THEN HttpErrorToResult(exc)
    ELSE IF exc.type = "URLError" THEN ConnectionFailedResult(exc)
    ELSE [ClientResult EXCEPT !.status = "error", !.session_id = s.session_id,
                              !.error_code = "unexpected_error", !.message = exc.msg]

-----------------------------------------------------------------------------
(* The public commands that run a message operation, with the arguments    *)
(* each passes to _run_message_operation.                                  *)

ChatEvents == {"complete", "tool_confirmation_request", "user_question_request", "error"}

Cmd(kind, completion_events, ensure, wait) ==
    [kind |-> kind, completion_events |-> completion_events,
     ensure_session_if_missing |-> ensure, wait_sse_completion |-> wait]

send_chat == Cmd("chat", ChatEvents, TRUE, TRUE)
send_tool_confirmation == {Cmd(k, ChatEvents, FALSE, FALSE) : k \in {"confirm", "reject"}}
\* (mutant) the answer command waits for a terminal event like chat does
send_question_answer_waits == Cmd("answer", ChatEvents, FALSE, TRUE)

send_question_answer == Cmd("answer", ChatEvents, FALSE, FALSE)
switch_agent == Cmd("switch_agent", {"agent_switched", "error"}, TRUE, TRUE)
list_agents == Cmd("list_agents", {"agent_list", "error"}, TRUE, TRUE)
\* (mutant) rollback asks for a session when it is given none
rollback_to_ensures == Cmd("rollback", {"rollback_result", "error"}, TRUE, TRUE)

rollback_to == Cmd("rollback", {"rollback_result", "error"}, FALSE, TRUE)

Commands ==
    {send_chat, send_question_answer, switch_agent, list_agents, rollback_to}
        \cup send_tool_confirmation

\* the agent id list_agents probes with, and the one a caller switches to
AgentProbe == "__agent_probe_not_exists__"
AgentArg == "a1"

\* the type and the agentId of the payload each command posts to /message
Payload(kind) ==
    IF kind = "chat" THEN [type |-> "chat", agentId |-> NoneS]
    ELSE IF kind \in {"confirm", "reject"}
    THEN [type |-> "tool_confirmation_response", agentId |-> NoneS]
    ELSE IF kind = "answer" THEN [type |-> "user_question_response", agentId |-> NoneS]
    ELSE IF kind = "switch_agent" THEN [type |-> "switch_agent", agentId |-> AgentArg]
    ELSE IF kind = "list_agents" THEN [type |-> "switch_agent", agentId |-> AgentProbe]
    ELSE IF kind = "rollback" THEN [type |-> "rollback", agentId |-> NoneS]
    ELSE [type |-> "abort", agentId |-> NoneS]

\* the session ids a caller passes
SessionArgs == {NoneS, "s1"}

NoOp == [kind |-> "none", completion_events |-> {}, ensure_session_if_missing |-> FALSE,
         wait_sse_completion |-> FALSE, session_id |-> NoneS]

-----------------------------------------------------------------------------
(* The server's answers to the session calls and to POST /message.         *)

Raised == [raised |-> TRUE]

\* answers to POST /session/load for session sid
LoadResponses(sid) ==
    {Raised, [success |-> FALSE], [success |-> TRUE],
     [success |-> TRUE, session |-> [id |-> sid]],
     [success |-> TRUE, session |-> [id |-> "s3"]]}

\* answers to POST /session/create
CreateResponses ==
    {Raised, [success |-> FALSE], [success |-> TRUE],
     [success |-> TRUE, session |-> [id |-> "s9"]]}

\* session.get("id") of an answer, when the answer succeeded and has one
ResponseSessionId(resp) ==
    IF resp = Raised \/ ~GetB(resp, "success") THEN NoneS
    ELSE IF ~Has(resp, "session") THEN NoneS
    ELSE GetS(resp.session, "id")

\* _bind_session_to_connection, given the answer to its POST /session/load
BindSessionToConnection(s, resp) ==
    IF Truthy(ResponseSessionId(resp))
    THEN [s EXCEPT !.session_id = ResponseSessionId(resp)]
    ELSE s

\* _ensure_session_for_connection, given the answer to its POST /session/create:
\* the new runtime fields and the returned id
EnsureSessionForConnection(s, resp) ==
    IF Truthy(ResponseSessionId(resp))
    THEN [rt |-> [s EXCEPT !.session_id = ResponseSessionId(resp)],
          id |-> ResponseSessionId(resp)]
    ELSE [rt |-> s, id |-> NoneS]

PostResult(body) == [kind |-> "result", body |-> body]
PostError(exc) == [kind |-> "error", exc |-> exc]

\* what the POST /message thread leaves in post_result_box / post_error_box
PostOutcomes ==
    {PostResult([success |-> TRUE]), PostResult([success |-> FALSE]),
     PostError(ExcTimeout("post timed out")), PostError(ExcHTTP),
     PostError(ExcURL), PostError(ExcRuntime("invalid json"))}

NoExc == [type |-> "none"]
NoOutcome == [kind |-> "none"]

\* (mutant) only an exception of the POST counts, not a non-success body
PostCheckIgnoresBody(o) ==
    IF o.kind = "error" THEN o.exc ELSE NoExc

\* the check of the POST answer inside the polling loop: the exception it raises
LoopPostCheck(o) ==
    IF o.kind = "error" THEN o.exc
    ELSE IF ~GetB(o.body, "success") THEN ExcRuntime("send failed")
    ELSE NoExc

\* the check of the POST answer after the loop
AfterLoopPostCheck(o) ==
    IF o.kind = "error" THEN o.exc
    ELSE IF ~GetB(o.body, "success") THEN ExcRuntime("send failed")
    ELSE NoExc

-----------------------------------------------------------------------------
(* Bounds.                                                                 *)

\* data blocks the server sends on one stream
MaxEvents == 2

\* data blocks of one stream, when the Correlator is looked at alone
MaxCorrEvents == 5

\* the data blocks a server may send
EventPool ==
    {EvConnected, EvConnectedNoId, EvUser, EvUserEmpty, EvSystem, EvStreamA,
     EvStreamAB, EvFinal, EvFinalEmpty, EvUsage, EvConfirm, EvQuestion,
     EvAgentList, EvAgentListBad, EvAgentSwitched, EvRollbackOk, EvRollbackFail,
     EvError, EvErrorAgents, EvErrorText, EvComplete, EvCompleteBare, EvInvalid,
     EvNonObject}

\* the data blocks a server sends on the stream of a whole operation
StreamPool ==
    {EvConnected, EvConnectedNoId, EvUser, EvSystem, EvConfirm, EvQuestion, EvAgentList,
     EvAgentSwitched, EvRollbackFail, EvError, EvErrorAgents, EvComplete,
     EvInvalid, EvNonObject}

-----------------------------------------------------------------------------
(* The state after SimpleSnowSSEClient.__init__.                           *)

\* no earlier message operation has left a Reader behind
NoStale == [state |-> "none", delivered |-> 0]

\* the client is used without the command line
NoCli == [pc |-> "none"]

NoHandles == [stream_response |-> FALSE, stream_sock |-> FALSE, reader_thread |-> FALSE]

InitTd == [stream_response |-> FALSE, stream_sock |-> FALSE, reader_thread |-> FALSE,
           closer |-> "none"]

\* what the run has shown so far: returned counts the Results handed to the
\* caller; exit and source tell how the polling loop was left and which
\* statement made the Result; tdlog lists the teardown steps done; users,
\* last_final, streams and terminal tell what the dispatched events were, and
\* terminal_at_result which terminal event had been dispatched when the Result
\* was made, pending_at_result and error_at_result what the Correlator had
\* stored then; command_result is the Result list_agents hands to its caller;
\* connection_id_at_send is the connection id the Correlator held when the
\* session calls were made, created the id _ensure_session_for_connection
\* returned; session_write tells of the last write to _session_id by the
\* Orchestrator (the reset, or a session call) whether it held the lock, whether
\* the Reader was alive then and whether it replaced an id the Reader had
\* adopted from an event; invalid_seen tells that a block that was not valid
\* JSON has been handled
InitHist == [returned |-> 0, connect_timed_out |-> FALSE, exit |-> "none",
             source |-> "none", post_at_break |-> "none", tdlog |-> <<>>,
             users |-> <<>>, last_final |-> NoneS, streams |-> <<>>,
             terminal |-> None, terminal_at_result |-> None,
             pending_at_result |-> None, error_at_result |-> None,
             command_result |-> NoResult, connection_id_at_send |-> NoneS,
             created |-> NoneS, invalid_seen |-> FALSE,
             session_write |-> [by |-> "reset", locked |-> FALSE,
                                reader_alive |-> FALSE, over_event |-> FALSE]]

\* _bind_session_to_connection and _ensure_session_for_connection write
\* _session_id when the answer names a session; they do not take the lock.
\* Before them only the Reader writes the field after the reset, so a value
\* other than the one given to the command was adopted from an event.
SessionCallWrites(h, resp) ==
    IF Truthy(ResponseSessionId(resp))
    THEN [h EXCEPT !.session_write =
             [by |-> "orchestrator", locked |-> FALSE,
              reader_alive |-> reader.state \in {"start", "running"},
              over_event |-> rt.session_id # op.session_id]]
    ELSE h

\* the dispatched events, as the stream showed them
Observe(h, s, ev) ==
    IF ev.json = "invalid"
    THEN [h EXCEPT !.invalid_seen = TRUE]
    ELSE IF ev.json # "object" THEN h
    ELSE LET d == ev.data
             isd == IsDict(ev)
             is_msg == ev.type = "message" /\ isd
             role == IF is_msg THEN GetS(d, "role") ELSE NoneS
             content == IF is_msg THEN GetS(d, "content") ELSE NoneS
         IN  [h EXCEPT
                !.users = IF role = "user" /\ Truthy(content)
                          THEN Append(@, content) ELSE @,
                !.last_final = IF role = "assistant" /\ ~GetB(d, "streaming")
                               THEN content ELSE @,
                !.streams = IF role = "assistant" /\ GetB(d, "streaming")
                            THEN Append(@, content) ELSE @,
                !.terminal = IF @ = None /\ ev.type \in s.completion_events
                             THEN ev ELSE @]

Init ==
    /\ pc = "idle"
    /\ op = NoOp
    /\ rt = InitRuntime
    /\ handles = NoHandles
    /\ reader = [state |-> "none", delivered |-> 0]
    /\ post = [state |-> "none", outcome |-> NoOutcome, checked |-> FALSE]
    /\ td = InitTd
    /\ sent = <<>>
    /\ result = NoResult
    /\ hist = InitHist
    /\ stale = NoStale
    /\ cli = NoCli

-----------------------------------------------------------------------------
(* The Orchestrator: _run_message_operation.                               *)

Request(path, sessionId, connectionId) ==
    [path |-> path, sessionId |-> sessionId, connectionId |-> connectionId]

\* (mutant) the session is loaded without naming the connection
SessionLoadRequestUnbound(session_id, connection_id) ==
    Request("POST /session/load", session_id, NoneS)

\* the request of _bind_session_to_connection
SessionLoadRequest(session_id, connection_id) ==
    Request("POST /session/load", session_id, connection_id)

\* the request of _ensure_session_for_connection
SessionCreateRequest(connection_id) ==
    Request("POST /session/create", NoneS, connection_id)

\* the POST /message request of a command: its payload's type, agentId and sessionId
MessageRequest(kind, sessionId) ==
    [path |-> "POST /message", sessionId |-> sessionId, connectionId |-> NoneS,
     type |-> Payload(kind).type, agentId |-> Payload(kind).agentId]

\* an exception reaches the except clauses; `finally` follows
Raise(exc, how) ==
    /\ result' = ExceptResult(exc, rt)
    /\ pc' = "finally"
    /\ hist' = [hist EXCEPT !.exit = how, !.source = "except",
                            !.connect_timed_out = @ \/ how = "connect_timeout",
                            !.terminal_at_result = hist.terminal]

\* a public command calls _run_message_operation, which resets the runtime state
Begin(c, sid) ==
    /\ pc = "idle"
    /\ op' = [kind |-> c.kind, completion_events |-> c.completion_events,
              ensure_session_if_missing |-> c.ensure_session_if_missing,
              wait_sse_completion |-> c.wait_sse_completion, session_id |-> sid]
    /\ rt' = ResetRuntimeState(sid, c.completion_events, <<>>)
    /\ handles' = [handles EXCEPT !.stream_sock = FALSE, !.reader_thread = FALSE]
    /\ pc' = "open"
    /\ UNCHANGED <<reader, post, td, sent, result, hist, stale, cli>>

\* _open_event_stream succeeds and the Reader thread is started
OpenEventStream(has_sock) ==
    /\ pc = "open"
    /\ handles' = [stream_response |-> TRUE, stream_sock |-> has_sock,
                   reader_thread |-> TRUE]
    /\ reader' = [state |-> "start", delivered |-> 0]
    /\ sent' = Append(sent, Request("GET /events", NoneS, NoneS))
    /\ pc' = "wait_connected"
    /\ UNCHANGED <<op, rt, post, td, result, hist, stale, cli>>

\* _open_event_stream raises: no Reader is started
OpenEventStreamFails(exc) ==
    /\ pc = "open"
    /\ sent' = Append(sent, Request("GET /events", NoneS, NoneS))
    /\ Raise(exc, "open_failed")
    /\ UNCHANGED <<op, rt, handles, reader, post, td, stale, cli>>

\* _connected_event.wait returns True
Connected ==
    /\ pc = "wait_connected"
    /\ rt.connected_event
    /\ pc' = "session"
    /\ UNCHANGED <<op, rt, handles, reader, post, td, sent, result, hist, stale, cli>>

\* (mutant) the return value of _connected_event.wait is ignored
ConnectTimeoutIgnored ==
    /\ pc = "wait_connected"
    /\ ~rt.connected_event
    /\ pc' = "session"
    /\ hist' = [hist EXCEPT !.connect_timed_out = TRUE]
    /\ UNCHANGED <<op, rt, handles, reader, post, td, sent, result, stale, cli>>

\* _connected_event.wait times out
ConnectTimeout ==
    /\ pc = "wait_connected"
    /\ ~rt.connected_event
    /\ Raise(ExcTimeout("connect timed out"), "connect_timeout")
    /\ UNCHANGED <<op, rt, handles, reader, post, td, sent, stale, cli>>

\* the session is bound or created, then the POST /message thread is started
SendCommand ==
    /\ pc = "session"
    /\ IF Truthy(op.session_id)
       THEN IF Truthy(rt.connection_id)
            THEN \E resp \in LoadResponses(op.session_id) :
                    /\ rt' = BindSessionToConnection(rt, resp)
                    /\ sent' = sent \o
                          <<SessionLoadRequest(op.session_id, rt.connection_id),
                            MessageRequest(op.kind, op.session_id)>>
                    /\ hist' = [SessionCallWrites(hist, resp)
                                   EXCEPT !.connection_id_at_send = rt.connection_id]
            ELSE /\ rt' = rt
                 /\ sent' = Append(sent, MessageRequest(op.kind, op.session_id))
                 /\ hist' = [hist EXCEPT !.connection_id_at_send = rt.connection_id]
       ELSE IF op.ensure_session_if_missing /\ Truthy(rt.connection_id)
            THEN \E resp \in CreateResponses :
                    LET e == EnsureSessionForConnection(rt, resp)
                    IN  /\ rt' = e.rt
                        /\ sent' = sent \o
                              <<SessionCreateRequest(rt.connection_id),
                                MessageRequest(op.kind, e.id)>>
                        /\ hist' = [SessionCallWrites(hist, resp)
                                       EXCEPT !.connection_id_at_send = rt.connection_id,
                                              !.created = e.id]
            ELSE /\ rt' = rt
                 /\ sent' = Append(sent, MessageRequest(op.kind, NoneS))
                 /\ hist' = [hist EXCEPT !.connection_id_at_send = rt.connection_id]
    /\ post' = [state |-> "pending", outcome |-> NoOutcome, checked |-> FALSE]
    /\ pc' = "loop"
    /\ UNCHANGED <<op, handles, reader, td, result, stale, cli>>

\* POST /session/load or POST /session/create is answered with JSON that is not
\* an object: response.get, after the try statement of the helper, raises, and
\* the exception reaches the except clauses of _run_message_operation
SessionCallRaises ==
    /\ pc = "session"
    /\ Truthy(rt.connection_id)
    /\ \/ /\ Truthy(op.session_id)
          /\ sent' = Append(sent, SessionLoadRequest(op.session_id, rt.connection_id))
       \/ /\ ~Truthy(op.session_id) /\ op.ensure_session_if_missing
          /\ sent' = Append(sent, SessionCreateRequest(rt.connection_id))
    /\ result' = ExceptResult(ExcAttribute, rt)
    /\ pc' = "finally"
    /\ hist' = [hist EXCEPT !.exit = "session_call", !.source = "except",
                            !.terminal_at_result = hist.terminal,
                            !.connection_id_at_send = rt.connection_id]
    /\ UNCHANGED <<op, rt, handles, reader, post, td, stale, cli>>

\* the POST /message thread: the request returns or raises; post_done is set
PostDone(o) ==
    /\ post.state = "pending"
    /\ post' = [post EXCEPT !.state = "done", !.outcome = o]
    /\ UNCHANGED <<pc, op, rt, handles, reader, td, sent, result, hist, stale, cli>>

\* the overall deadline has passed at the top of the loop
LoopDeadline ==
    /\ pc = "loop"
    /\ Raise(ExcTimeout("request timed out"), "deadline")
    /\ UNCHANGED <<op, rt, handles, reader, post, td, sent, stale, cli>>

\* _completed_event.wait returns True: break
LoopBreakCompleted ==
    /\ pc = "loop"
    /\ op.wait_sse_completion
    /\ rt.completed_event
    /\ pc' = "after_loop"
    /\ hist' = [hist EXCEPT !.exit = "terminal",
                            !.post_at_break =
                                IF post.state = "pending" THEN "pending"
                                ELSE IF post.checked THEN "checked_ok"
                                ELSE IF LoopPostCheck(post.outcome) = NoExc THEN "ok"
                                ELSE "failed"]
    /\ UNCHANGED <<op, rt, handles, reader, post, td, sent, result, stale, cli>>

\* the wait returned False (or is skipped) and the POST answer is there, unchecked
LoopCheckPost ==
    /\ pc = "loop"
    /\ ~(op.wait_sse_completion /\ rt.completed_event)
    /\ post.state = "done" /\ ~post.checked
    /\ post' = [post EXCEPT !.checked = TRUE]
    /\ IF LoopPostCheck(post.outcome) # NoExc
       THEN Raise(LoopPostCheck(post.outcome), "post_failed")
       ELSE /\ pc' = IF op.wait_sse_completion THEN "loop" ELSE "after_loop"
            /\ hist' = IF op.wait_sse_completion THEN hist
                       ELSE [hist EXCEPT !.exit = "post_ok"]
            /\ result' = result
    /\ UNCHANGED <<op, rt, handles, reader, td, sent, stale, cli>>

\* the wait returned False (or is skipped) and there is nothing to check: next round
LoopPollAgain ==
    /\ pc = "loop"
    /\ ~(op.wait_sse_completion /\ rt.completed_event)
    /\ ~(post.state = "done" /\ ~post.checked)
    /\ UNCHANGED vars

Built(h) == [h EXCEPT !.source = "build", !.terminal_at_result = h.terminal,
                      !.pending_at_result = rt.pending_request,
                      !.error_at_result = rt.error]

\* (mutant) the Result is returned without the finally clause
AfterLoopWithoutFinally ==
    /\ pc = "after_loop"
    /\ result' = BuildResult(rt)
    /\ pc' = "returned"
    /\ hist' = [Built(hist) EXCEPT !.returned = @ + 1]
    /\ UNCHANGED <<op, rt, handles, reader, post, td, sent, stale, cli>>

\* (mutant) after the loop the answer of POST /message is waited for
AfterLoopWaitsForPost ==
    /\ pc = "after_loop"
    /\ post.state = "done"
    /\ IF post.state = "done" /\ ~post.checked
       THEN /\ post' = [post EXCEPT !.checked = TRUE]
            /\ IF AfterLoopPostCheck(post.outcome) # NoExc
               THEN Raise(AfterLoopPostCheck(post.outcome), hist.exit)
               ELSE /\ result' = BuildResult(rt)
                    /\ pc' = "finally"
                    /\ hist' = Built(hist)
       ELSE /\ result' = BuildResult(rt)
            /\ pc' = "finally"
            /\ hist' = Built(hist)
            /\ post' = post
    /\ UNCHANGED <<op, rt, handles, reader, td, sent, stale, cli>>

\* after the loop: the POST answer is checked if it is there and unchecked, then
\* `return self._build_result()` evaluates the Result
AfterLoop ==
    /\ pc = "after_loop"
    /\ IF post.state = "done" /\ ~post.checked
       THEN /\ post' = [post EXCEPT !.checked = TRUE]
            /\ IF AfterLoopPostCheck(post.outcome) # NoExc
               THEN Raise(AfterLoopPostCheck(post.outcome), hist.exit)
               ELSE /\ result' = BuildResult(rt)
                    /\ pc' = "finally"
                    /\ hist' = Built(hist)
       ELSE /\ result' = BuildResult(rt)
            /\ pc' = "finally"
            /\ hist' = Built(hist)
            /\ post' = post
    /\ UNCHANGED <<op, rt, handles, reader, td, sent, stale, cli>>

-----------------------------------------------------------------------------
(* Teardown: _close_event_stream, run by the finally clause.               *)

ReaderAlive == reader.state \in {"start", "running"}

\* (mutant) self._stream_sock is not cleared
TdKeepsSocketHandle ==
    /\ pc = "finally"
    /\ td' = [stream_response |-> handles.stream_response,
              stream_sock |-> handles.stream_sock,
              reader_thread |-> handles.reader_thread, closer |-> "none"]
    /\ handles' = [NoHandles EXCEPT !.stream_sock = handles.stream_sock]
    /\ rt' = [rt EXCEPT !.completed_event = TRUE]
    /\ hist' = [hist EXCEPT !.tdlog = IF handles.stream_sock
                                      THEN <<"signal", "socket">>
                                      ELSE <<"signal">>]
    /\ pc' = "td_join"
    /\ UNCHANGED <<op, reader, post, sent, result, stale, cli>>

\* (mutant) the completion signal is not set before the socket is closed
TdWithoutSignal ==
    /\ pc = "finally"
    /\ td' = [stream_response |-> handles.stream_response,
              stream_sock |-> handles.stream_sock,
              reader_thread |-> handles.reader_thread, closer |-> "none"]
    /\ handles' = NoHandles
    /\ hist' = [hist EXCEPT !.tdlog = IF handles.stream_sock
                                      THEN <<"socket">> ELSE <<>>]
    /\ pc' = "td_join"
    /\ UNCHANGED <<op, rt, reader, post, sent, result, stale, cli>>

\* under the lock the handles are taken and cleared; the completion signal is
\* set; the socket, when there is one, is closed
TdSignalAndCloseSocket ==
    /\ pc = "finally"
    /\ td' = [stream_response |-> handles.stream_response,
              stream_sock |-> handles.stream_sock,
              reader_thread |-> handles.reader_thread, closer |-> "none"]
    /\ handles' = NoHandles
    /\ rt' = [rt EXCEPT !.completed_event = TRUE]
    /\ hist' = [hist EXCEPT !.tdlog = IF handles.stream_sock
                                      THEN <<"signal", "socket">>
                                      ELSE <<"signal">>]
    /\ pc' = "td_join"
    /\ UNCHANGED <<op, reader, post, sent, result, stale, cli>>

\* (mutant) the join has no timeout: it returns only when the Reader has exited
TdJoinReaderUnbounded ==
    /\ pc = "td_join"
    /\ ~td.reader_thread \/ ~ReaderAlive
    /\ pc' = "td_close"
    /\ hist' = [hist EXCEPT !.tdlog = IF ~td.reader_thread THEN @
                                      ELSE Append(@, "join")]
    /\ UNCHANGED <<op, rt, handles, reader, post, td, sent, result, stale, cli>>

\* the join step ends: the Reader has exited ("join": reader_thread.join(timeout=1.0)
\* returned with the thread dead, or is_alive() was already false and no wait
\* was needed), or the wait timed out with the Reader still alive
TdJoinReader ==
    /\ pc = "td_join"
    /\ pc' = "td_close"
    /\ hist' = [hist EXCEPT !.tdlog =
                    IF ~td.reader_thread THEN @
                    ELSE IF ReaderAlive THEN Append(@, "join_timeout")
                    ELSE Append(@, "join")]
    /\ UNCHANGED <<op, rt, handles, reader, post, td, sent, result, stale, cli>>

\* the closer thread closes the stream handle; close_done.wait(timeout=0.5)
\* returns when the close is done or after its timeout; then the Result is returned
TdCloseResponse(hung) ==
    /\ pc = "td_close"
    /\ td' = [td EXCEPT !.closer = IF ~td.stream_response THEN "none"
                                   ELSE IF hung THEN "running" ELSE "done"]
    /\ hist' = [hist EXCEPT !.tdlog =
                    IF ~td.stream_response THEN @
                    ELSE IF hung THEN Append(@, "close_timeout")
                    ELSE Append(@, "close"),
                            !.returned = @ + 1]
    /\ pc' = "returned"
    /\ UNCHANGED <<op, rt, handles, reader, post, sent, result, stale, cli>>

\* list_agents, after _run_message_operation has returned raw
ListAgentsResult(raw) ==
    IF raw.status = "success" /\ raw.agents # NoneL THEN raw
    ELSE IF raw.available_agents # NoneL
    THEN [ClientResult EXCEPT !.status = "success", !.session_id = raw.session_id,
                              !.agents = raw.available_agents,
                              !.current_agent_id = raw.current_agent_id]
    ELSE raw

\* (mutant) list_agents returns what _run_message_operation returned
ListAgentsReturnsRaw ==
    /\ pc = "returned"
    /\ op.kind = "list_agents"
    /\ hist.command_result = NoResult
    /\ hist' = [hist EXCEPT !.command_result = result]
    /\ UNCHANGED <<pc, op, rt, handles, reader, post, td, sent, result, stale, cli>>

\* _run_message_operation has returned to list_agents, which returns its own Result
ListAgentsReturn ==
    /\ pc = "returned"
    /\ op.kind = "list_agents"
    /\ hist.command_result = NoResult
    /\ hist' = [hist EXCEPT !.command_result = ListAgentsResult(result)]
    /\ UNCHANGED <<pc, op, rt, handles, reader, post, td, sent, result, stale, cli>>

\* a hung stream_response.close() returns later, in the closer thread
CloserDone ==
    /\ td.closer = "running"
    /\ td' = [td EXCEPT !.closer = "done"]
    /\ UNCHANGED <<pc, op, rt, handles, reader, post, sent, result, hist, stale, cli>>

-----------------------------------------------------------------------------
(* The Reader thread: _event_reader_loop.                                  *)

\* (mutant) the except clause does not look at the completion signal
ReaderExceptAlways(s) ==
    [s EXCEPT !.error = [error_code |-> "event_stream_error",
                         message |-> "stream read failed"],
              !.completed_event = TRUE]

\* the except clause of _event_reader_loop
ReaderExcept(s) ==
    IF ~s.completed_event
    THEN [s EXCEPT !.error = [error_code |-> "event_stream_error",
                              message |-> "stream read failed"],
                   !.completed_event = TRUE]
    ELSE s

\* the thread starts running: it returns at once without a stream handle
ReaderStart ==
    /\ reader.state = "start"
    /\ reader' = [reader EXCEPT !.state = IF handles.stream_response
                                          THEN "running" ELSE "done"]
    /\ UNCHANGED <<pc, op, rt, handles, post, td, sent, result, hist, stale, cli>>

\* (mutant) the loop is not left when the completion signal is set
DispatchWithoutBreak(ev, max) ==
    /\ reader.state = "running"
    /\ reader.delivered < max
    /\ hist' = Observe(hist, rt, ev)
    /\ LET h == HandleDataBlock(rt, ev)
       IN  IF h.raised
           THEN /\ rt' = ReaderExcept(rt)
                /\ reader' = [state |-> "done", delivered |-> reader.delivered + 1]
           ELSE /\ rt' = h.rt
                /\ reader' = [state |-> "running", delivered |-> reader.delivered + 1]
    /\ UNCHANGED <<pc, op, handles, post, td, sent, result, stale, cli>>

\* data lines and a blank line are read: the block is handled, and the loop is
\* left when the completion signal is set
Dispatch(ev, max) ==
    /\ reader.state = "running"
    /\ reader.delivered < max
    /\ hist' = Observe(hist, rt, ev)
    /\ LET h == HandleDataBlock(rt, ev)
       IN  IF h.raised
           THEN /\ rt' = ReaderExcept(rt)
                /\ reader' = [state |-> "done", delivered |-> reader.delivered + 1]
           ELSE /\ rt' = h.rt
                /\ reader' = [state |-> IF h.rt.completed_event THEN "done"
                                        ELSE "running",
                              delivered |-> reader.delivered + 1]
    /\ UNCHANGED <<pc, op, handles, post, td, sent, result, stale, cli>>

ReaderDispatch(ev) == Dispatch(ev, MaxEvents)

\* a blank line with no data lines before it: only the completion signal is looked at
ReaderBlankLine ==
    /\ reader.state = "running"
    /\ rt.completed_event
    /\ reader' = [reader EXCEPT !.state = "done"]
    /\ UNCHANGED <<pc, op, rt, handles, post, td, sent, result, hist, stale, cli>>

\* (mutant) the end of the stream is handled like a read failure
ReaderEndOfStreamAsFailure ==
    /\ reader.state = "running"
    /\ rt' = ReaderExcept(rt)
    /\ reader' = [reader EXCEPT !.state = "done"]
    /\ UNCHANGED <<pc, op, handles, post, td, sent, result, hist, stale, cli>>

\* the stream ends
ReaderEndOfStream ==
    /\ reader.state = "running"
    /\ reader' = [reader EXCEPT !.state = "done"]
    /\ UNCHANGED <<pc, op, rt, handles, post, td, sent, result, hist, stale, cli>>

\* reading the stream raises
ReaderReadFails ==
    /\ reader.state = "running"
    /\ rt' = ReaderExcept(rt)
    /\ reader' = [reader EXCEPT !.state = "done"]
    /\ UNCHANGED <<pc, op, handles, post, td, sent, result, hist, stale, cli>>

-----------------------------------------------------------------------------

Next ==
    \/ \E c \in Commands, sid \in SessionArgs : Begin(c, sid)
    \/ \E has_sock \in BOOLEAN : OpenEventStream(has_sock)
    \/ \E exc \in {ExcURL, ExcHTTP, ExcTimeout("open timed out")} : OpenEventStreamFails(exc)
    \/ Connected
    \/ ConnectTimeout
    \/ SendCommand
    \/ SessionCallRaises
    \/ \E o \in PostOutcomes : PostDone(o)
    \/ LoopDeadline
    \/ LoopBreakCompleted
    \/ LoopCheckPost
    \/ LoopPollAgain
    \/ AfterLoop
    \/ TdSignalAndCloseSocket
    \/ TdJoinReader
    \/ \E hung \in BOOLEAN : TdCloseResponse(hung)
    \/ ListAgentsReturn
    \/ CloserDone
    \/ ReaderStart
    \/ \E ev \in StreamPool : ReaderDispatch(ev)
    \/ ReaderBlankLine
    \/ ReaderEndOfStream
    \/ ReaderReadFails

Spec == Init /\ [][Next]_vars

\* a step of the thread that runs _run_message_operation, once it is under way
OrchestratorStep ==
    \/ \E has_sock \in BOOLEAN : OpenEventStream(has_sock)
    \/ \E exc \in {ExcURL, ExcHTTP, ExcTimeout("open timed out")} : OpenEventStreamFails(exc)
    \/ Connected
    \/ ConnectTimeout
    \/ SendCommand
    \/ SessionCallRaises
    \/ LoopDeadline
    \/ LoopBreakCompleted
    \/ LoopCheckPost
    \/ AfterLoop
    \/ TdSignalAndCloseSocket
    \/ TdJoinReader
    \/ \E hung \in BOOLEAN : TdCloseResponse(hung)

\* the calling thread keeps running and the clock advances: every wait of the
\* Orchestrator has a timeout, so it always takes its next step.  Nothing is
\* assumed of the server, the POST /message thread, the Reader or the closer.
\* The stream carries the events that move the Orchestrator: connected, a
\* message, and the two terminal events of every command.
LivePool == {EvConnected, EvUser, EvError, EvComplete}

NextLive ==
    \/ \E c \in Commands, sid \in SessionArgs : Begin(c, sid)
    \/ OrchestratorStep
    \/ LoopPollAgain
    \/ \E o \in PostOutcomes : PostDone(o)
    \/ CloserDone
    \/ ReaderStart
    \/ \E ev \in LivePool : ReaderDispatch(ev)
    \/ ReaderBlankLine
    \/ ReaderEndOfStream
    \/ ReaderReadFails

SpecLive == Init /\ [][NextLive]_vars /\ WF_vars(OrchestratorStep)

-----------------------------------------------------------------------------
(* The Correlator alone: one operation's Reader dispatching a stream, and  *)
(* _build_result applied where the Orchestrator reaches it on its success  *)
(* path: after the completion signal when the command waits for it, at any *)
(* moment when it does not.                                                *)

ImageArgs == {<<>>, <<"a.png">>}

InitCorr ==
    /\ pc = "corr"
    /\ \E c \in Commands, sid \in SessionArgs, imgs \in ImageArgs :
          /\ (imgs # <<>> => c.kind = "chat")
          /\ op = [kind |-> c.kind, completion_events |-> c.completion_events,
                   ensure_session_if_missing |-> c.ensure_session_if_missing,
                   wait_sse_completion |-> c.wait_sse_completion, session_id |-> sid]
          /\ rt = ResetRuntimeState(sid, c.completion_events, imgs)
    /\ handles = [stream_response |-> TRUE, stream_sock |-> TRUE, reader_thread |-> TRUE]
    /\ reader = [state |-> "running", delivered |-> 0]
    /\ post = [state |-> "none", outcome |-> NoOutcome, checked |-> FALSE]
    /\ td = InitTd
    /\ sent = <<>>
    /\ result = NoResult
    /\ hist = InitHist
    /\ stale = NoStale
    /\ cli = NoCli

CorrDispatch(ev) == pc = "corr" /\ Dispatch(ev, MaxCorrEvents)

CorrReadFails == pc = "corr" /\ ReaderReadFails

CorrEndOfStream == pc = "corr" /\ ReaderEndOfStream

CorrBuildResult ==
    /\ pc = "corr"
    /\ rt.completed_event \/ ~op.wait_sse_completion
    /\ result' = BuildResult(rt)
    /\ pc' = "corr_done"
    /\ hist' = Built(hist)
    /\ UNCHANGED <<op, rt, handles, reader, post, td, sent, stale, cli>>

NextCorr ==
    \/ \E ev \in EventPool : CorrDispatch(ev)
    \/ CorrReadFails
    \/ CorrEndOfStream
    \/ CorrBuildResult

SpecCorr == InitCorr /\ [][NextCorr]_vars

-----------------------------------------------------------------------------
(* Two message operations one after the other on one client (specification *)
(* SpecSeq): the first operation's Reader thread is a daemon thread that   *)
(* teardown joins for at most one second, so it may still be running, on   *)
(* the first stream, while the second operation runs.  It works on the     *)
(* same client fields as the second operation's Reader.                    *)

\* data blocks the first stream delivers after the first operation has returned
MaxStaleEvents == 1

\* the data blocks the server may still send on the first stream
StalePool == {EvConnected, EvUser, EvError, EvComplete}

\* the command run as second operation: run_command calls send_chat after
\* switch_agent on the same client
SecondCommands == {send_chat}

\* the next public command calls _run_message_operation on the same client: the
\* runtime state is reset; the earlier Reader, if it has not exited, stays
BeginNext(c, sid) ==
    /\ pc = "returned"
    /\ stale.state = "none"
    /\ reader.state # "start"
    /\ stale' = [state |-> IF reader.state = "running" THEN "running" ELSE "done",
                 delivered |-> 0]
    /\ op' = [kind |-> c.kind, completion_events |-> c.completion_events,
              ensure_session_if_missing |-> c.ensure_session_if_missing,
              wait_sse_completion |-> c.wait_sse_completion, session_id |-> sid]
    /\ rt' = ResetRuntimeState(sid, c.completion_events, <<>>)
    /\ handles' = [handles EXCEPT !.stream_sock = FALSE, !.reader_thread = FALSE]
    /\ reader' = [state |-> "none", delivered |-> 0]
    /\ post' = [state |-> "none", outcome |-> NoOutcome, checked |-> FALSE]
    /\ td' = InitTd
    /\ sent' = <<>>
    /\ result' = NoResult
    /\ hist' = [InitHist EXCEPT !.session_write.reader_alive = (reader.state = "running")]
    /\ pc' = "open"
    /\ UNCHANGED cli

\* the earlier Reader reads a data block and a blank line from its stream: the
\* block is handled on the client's fields; the loop is left when the
\* completion signal is set
StaleDispatch(ev) ==
    /\ stale.state = "running"
    /\ stale.delivered < MaxStaleEvents
    /\ LET h == HandleDataBlock(rt, ev)
           after == IF h.raised THEN ReaderExcept(rt) ELSE h.rt
       IN  /\ rt' = after
           /\ stale' = [state |-> IF h.raised \/ after.completed_event
                                  THEN "done" ELSE "running",
                        delivered |-> stale.delivered + 1]
    /\ UNCHANGED <<pc, op, handles, reader, post, td, sent, result, hist, cli>>

\* the earlier Reader reads a blank line: it leaves the loop if the signal is set
StaleBlankLine ==
    /\ stale.state = "running"
    /\ rt.completed_event
    /\ stale' = [stale EXCEPT !.state = "done"]
    /\ UNCHANGED <<pc, op, rt, handles, reader, post, td, sent, result, hist, cli>>

\* the first stream ends
StaleEndOfStream ==
    /\ stale.state = "running"
    /\ stale' = [stale EXCEPT !.state = "done"]
    /\ UNCHANGED <<pc, op, rt, handles, reader, post, td, sent, result, hist, cli>>

\* reading the first stream raises: the except clause of the earlier Reader
StaleReadFails ==
    /\ stale.state = "running"
    /\ rt' = ReaderExcept(rt)
    /\ stale' = [stale EXCEPT !.state = "done"]
    /\ UNCHANGED <<pc, op, handles, reader, post, td, sent, result, hist, cli>>

NextSeq ==
    \/ Next
    \/ \E c \in SecondCommands, sid \in SessionArgs : BeginNext(c, sid)
    \/ \E ev \in StalePool : StaleDispatch(ev)
    \/ StaleBlankLine
    \/ StaleEndOfStream
    \/ StaleReadFails

SpecSeq == Init /\ [][NextSeq]_vars

-----------------------------------------------------------------------------
(* The command line (specification SpecCli): main parses the arguments,    *)
(* validate_args checks their combination, run_command calls the public    *)
(* commands of one client, main prints the Result and returns the exit     *)
(* code.  The commands that are one HTTP call are modelled whole.  A       *)
(* message operation is one step here: its steps are those of Spec, and    *)
(* main sees of it the requests it issued and the Result it returned.      *)

\* the most options one invocation gives
MaxOptions == 4

\* --image: none given, a readable file, a missing file, an http(s) URL, a path
\* that exists and cannot be read (a directory, a file without read permission)
ImageKinds == {"none", "ok", "missing", "url", "unreadable"}

\* the namespace parse_args returns when no option is given
DefaultArgs ==
    [message |-> NoneS, session |-> NoneS, confirm |-> FALSE, reject |-> FALSE,
     answer |-> FALSE, request_id |-> NoneS, answer_text |-> NoneS, abort |-> FALSE,
     switch_agent |-> NoneS, list_sessions |-> FALSE, load_session |-> NoneS,
     delete_session |-> NoneS, list_agents |-> FALSE, list_rollback_points |-> FALSE,
     rollback_to |-> NoneS, rollback_files |-> FALSE, rollback_file |-> FALSE,
     health |-> FALSE]

\* the value each option has when it is given
GivenArgs ==
    [message |-> "hi", session |-> "s1", confirm |-> TRUE, reject |-> TRUE,
     answer |-> TRUE, request_id |-> "r1", answer_text |-> "yes", abort |-> TRUE,
     switch_agent |-> AgentArg, list_sessions |-> TRUE, load_session |-> "s2",
     delete_session |-> "s3", list_agents |-> TRUE, list_rollback_points |-> TRUE,
     rollback_to |-> "3", rollback_files |-> TRUE, rollback_file |-> TRUE,
     health |-> TRUE]

ParseArgs(given, image) ==
    [f \in DOMAIN DefaultArgs \cup {"image"} |->
        IF f = "image" THEN image
        ELSE IF f \in given THEN GivenArgs[f] ELSE DefaultArgs[f]]

\* validate_args: the error text, or NoneS
validate_args(args) ==
    IF Cardinality({f \in {"confirm", "reject", "answer"} : args[f]}) > 1
    THEN "confirm/reject/answer exclude each other"
    ELSE IF (args.confirm \/ args.reject) /\ ~Truthy(args.request_id)
    THEN "confirm or reject needs request-id"
    ELSE IF (args.confirm \/ args.reject) /\ ~Truthy(args.session)
    THEN "confirm or reject needs session"
    ELSE IF args.answer /\ ~Truthy(args.request_id) THEN "answer needs request-id"
    ELSE IF args.answer /\ ~Truthy(args.answer_text) THEN "answer needs answer-text"
    ELSE IF args.answer /\ ~Truthy(args.session) THEN "answer needs session"
    ELSE IF args.abort /\ ~Truthy(args.session) THEN "abort needs session"
    ELSE IF args.list_rollback_points /\ ~Truthy(args.session)
    THEN "list-rollback-points needs session"
    ELSE IF args.rollback_to # NoneS /\ ~Truthy(args.session)
    THEN "rollback-to needs session"
    ELSE IF args.rollback_file /\ ~args.rollback_files
    THEN "rollback-file needs rollback-files"
    ELSE IF ~(\/ Truthy(args.message) \/ args.confirm \/ args.reject \/ args.answer
              \/ args.abort \/ Truthy(args.switch_agent) \/ args.list_sessions
              \/ Truthy(args.load_session) \/ Truthy(args.delete_session)
              \/ args.list_agents \/ args.list_rollback_points
              \/ args.rollback_to # NoneS \/ args.health)
    THEN "no action given"
    ELSE NoneS

\* the ClientResult main makes of a validation error, and the one at the end of
\* run_command
InvalidArgsResult(text) ==
    [ClientResult EXCEPT !.status = "error", !.error_code = "invalid_args",
                         !.message = text]

\* the first branch of run_command that the arguments take
Branch(args) ==
    IF args.health THEN "health"
    ELSE IF args.list_sessions THEN "list_sessions"
    ELSE IF Truthy(args.delete_session) THEN "delete_session"
    ELSE IF args.list_rollback_points THEN "list_rollback_points"
    ELSE IF args.rollback_to # NoneS THEN "rollback"
    ELSE IF args.list_agents THEN "list_agents"
    ELSE IF args.confirm THEN "confirm"
    ELSE IF args.reject THEN "reject"
    ELSE IF args.answer THEN "answer"
    ELSE IF args.abort THEN "abort"
    ELSE "load_switch_chat"

\* what an HTTP call of a one-call command gives: the parsed body, or the
\* exception urlopen / json.loads raises
HttpAnswers ==
    {PostResult([success |-> TRUE]), PostResult([success |-> FALSE]),
     PostResult(EmptyMap),
     PostError(HTTPError(404, "Session not found")),
     PostError(HTTPError(400, "Session not found")),
     PostError(ExcHTTP), PostError(ExcURL),
     PostError(ExcTimeout("timed out")), PostError(ExcRuntime("invalid json"))}

UnexpectedErrorResult(session_id, msg) ==
    [ClientResult EXCEPT !.status = "error", !.session_id = session_id,
                         !.error_code = "unexpected_error", !.message = msg]

\* (mutant) abort reports success for every answer the server gives
abort_task_ignores_flag(session_id, a) ==
    IF a.kind = "error"
    THEN IF a.exc.type \in {"URLError", "HTTPError"}
         THEN ConnectionFailedResult(a.exc)
         ELSE UnexpectedErrorResult(session_id, a.exc.msg)
    ELSE [ClientResult EXCEPT !.status = "success", !.session_id = session_id,
                              !.message = "task aborted"]

\* abort_task, given what its POST /message gives.  Its first except clause is
\* `except error.URLError`, which also catches HTTPError, a subclass of URLError.
abort_task(session_id, a) ==
    IF a.kind = "error"
    THEN IF a.exc.type \in {"URLError", "HTTPError"}
         THEN ConnectionFailedResult(a.exc)
         ELSE UnexpectedErrorResult(session_id, a.exc.msg)
    ELSE IF ~GetB(a.body, "success")
    THEN UnexpectedErrorResult(session_id, "abort failed")
    ELSE [ClientResult EXCEPT !.status = "success", !.session_id = session_id,
                              !.message = "task aborted"]

\* the except clauses of load_session, delete_session and list_rollback_points
SessionCommandExcept(session_id, exc) ==
    IF exc.type = "HTTPError" THEN HttpErrorToResult(exc)
    ELSE IF exc.type = "URLError" THEN ConnectionFailedResult(exc)
    ELSE UnexpectedErrorResult(session_id, exc.msg)

\* load_session, delete_session, list_rollback_points, given what the HTTP call gives
SessionCommand(session_id, a, done) ==
    IF a.kind = "error" THEN SessionCommandExcept(session_id, a.exc)
    ELSE IF ~GetB(a.body, "success")
    THEN UnexpectedErrorResult(session_id, "request failed")
    ELSE [ClientResult EXCEPT !.status = "success", !.session_id = session_id,
                              !.message = done]

load_session(session_id, a) == SessionCommand(session_id, a, "session loaded")
delete_session(session_id, a) == SessionCommand(session_id, a, "session deleted")
list_rollback_points(session_id, a) == SessionCommand(session_id, a, NoneS)

\* the except clauses of list_sessions and health_check: URLError (and so
\* HTTPError), then Exception
PlainCommandExcept(exc) ==
    IF exc.type \in {"URLError", "HTTPError"} THEN ConnectionFailedResult(exc)
    ELSE UnexpectedErrorResult(NoneS, exc.msg)

list_sessions(a) ==
    IF a.kind = "error" THEN PlainCommandExcept(a.exc)
    ELSE IF ~GetB(a.body, "success") THEN UnexpectedErrorResult(NoneS, "request failed")
    ELSE [ClientResult EXCEPT !.status = "success"]

health_check(a) ==
    IF a.kind = "error" THEN PlainCommandExcept(a.exc)
    ELSE [ClientResult EXCEPT !.status = "success"]

\* _build_images_payload as send_chat calls it: the payload is built
\* ("payload"), FileNotFoundError or ValueError is raised and send_chat returns
\* invalid_args ("invalid_args"), or open() raises another OSError, which
\* send_chat's except clause does not name ("raises")
BuildImagesPayload(image) ==
    IF image \in {"none", "ok"} THEN "payload"
    ELSE IF image \in {"missing", "url"} THEN "invalid_args"
    ELSE "raises"

\* the Results a message operation can return to run_command, by status
MessageOperationResults(kind, session_id) ==
    {[ClientResult EXCEPT !.status = "success", !.session_id = sid] :
        sid \in {session_id, "s9"}}
    \cup {[ClientResult EXCEPT !.status = st, !.session_id = session_id,
                               !.request_id = "r1",
                               !.request_data = [toolCall |-> "t"]] :
            st \in {"requires_confirmation", "requires_question"}}
    \cup {[ClientResult EXCEPT !.status = "error", !.session_id = session_id,
                               !.error_code = code, !.message = "failed"] :
            code \in {"timeout", "unexpected_error", "server_error",
                      "event_stream_error"}}
    \cup {HttpErrorToResult(HTTPError(404, "Session not found")),
          ConnectionFailedResult(ExcURL)}

\* the requests a message operation issues: it opens the stream first; the
\* session call and POST /message follow unless it fails before
MessageOperationRequests(kind, session_id) ==
    {<<Request("GET /events", NoneS, NoneS)>>,
     <<Request("GET /events", NoneS, NoneS), MessageRequest(kind, session_id)>>}

\* no one-call command has been answered
NoAnswer == [kind |-> "none"]

InitCli ==
    /\ pc = "idle"
    /\ op = NoOp
    /\ rt = InitRuntime
    /\ handles = NoHandles
    /\ reader = [state |-> "none", delivered |-> 0]
    /\ post = [state |-> "none", outcome |-> NoOutcome, checked |-> FALSE]
    /\ td = InitTd
    /\ sent = <<>>
    /\ result = NoResult
    /\ hist = InitHist
    /\ stale = NoStale
    /\ \E given \in SUBSET DOMAIN DefaultArgs, image \in ImageKinds :
          /\ Cardinality(given) + (IF image = "none" THEN 0 ELSE 1) <= MaxOptions
          /\ cli = [pc |-> "main", args |-> ParseArgs(given, image),
                    session |-> NoneS, answer |-> NoAnswer, exit_code |-> NoneS,
                    switch_result |-> NoResult]

CliUnchanged == UNCHANGED <<pc, op, rt, handles, reader, post, td, hist, stale>>

\* a command has returned its Result to run_command, which returns it to main;
\* cli.answer remembers what the server gave to the last one-call command
Return(r, requests, a) ==
    /\ result' = r
    /\ sent' = sent \o requests
    /\ cli' = [cli EXCEPT !.pc = "print", !.answer = a]
    /\ CliUnchanged

\* main: validate_args; on an error the invalid_args Result is printed, exit code 1
CliValidate ==
    /\ cli.pc = "main"
    /\ IF validate_args(cli.args) # NoneS
       THEN /\ result' = InvalidArgsResult(validate_args(cli.args))
            /\ cli' = [cli EXCEPT !.pc = "exit", !.exit_code = "1"]
       ELSE /\ result' = result
            /\ cli' = [cli EXCEPT !.pc = "run", !.session = cli.args.session]
    /\ sent' = sent
    /\ CliUnchanged

CliHealth(a) ==
    /\ cli.pc = "run" /\ Branch(cli.args) = "health"
    /\ Return(health_check(a), <<Request("GET /health", NoneS, NoneS)>>, a)

CliListSessions(a) ==
    /\ cli.pc = "run" /\ Branch(cli.args) = "list_sessions"
    /\ Return(list_sessions(a), <<Request("GET /session/list", NoneS, NoneS)>>, a)

CliDeleteSession(a) ==
    /\ cli.pc = "run" /\ Branch(cli.args) = "delete_session"
    /\ Return(delete_session(cli.args.delete_session, a),
              <<Request("DELETE /session", cli.args.delete_session, NoneS)>>, a)

CliListRollbackPoints(a) ==
    /\ cli.pc = "run" /\ Branch(cli.args) = "list_rollback_points"
    /\ Return(list_rollback_points(cli.args.session, a),
              <<Request("GET /session/rollback-points", cli.args.session, NoneS)>>, a)

CliAbort(a) ==
    /\ cli.pc = "run" /\ Branch(cli.args) = "abort"
    /\ Return(abort_task(cli.args.session, a),
              <<MessageRequest("abort", cli.args.session)>>, a)

\* rollback_to, list_agents, send_tool_confirmation, send_question_answer:
\* one message operation
CliMessageCommand ==
    /\ cli.pc = "run"
    /\ Branch(cli.args) \in {"rollback", "list_agents", "confirm", "reject", "answer"}
    /\ LET kind == Branch(cli.args)
       IN  \E raw \in MessageOperationResults(kind, cli.args.session),
              requests \in MessageOperationRequests(kind, cli.args.session) :
              Return(IF kind = "list_agents" THEN ListAgentsResult(raw) ELSE raw,
                     requests, cli.answer)

\* --load-session: its Result is returned unless it is success and a message or
\* an agent switch follows
CliLoadSession(a) ==
    /\ cli.pc = "run" /\ Branch(cli.args) = "load_switch_chat"
    /\ Truthy(cli.args.load_session)
    /\ LET r == load_session(cli.args.load_session, a)
           requests == <<Request("POST /session/load", cli.args.load_session, NoneS)>>
       IN  IF r.status # "success"
              \/ (~Truthy(cli.args.message) /\ ~Truthy(cli.args.switch_agent))
           THEN Return(r, requests, a)
           ELSE /\ cli' = [cli EXCEPT !.pc = "after_load", !.answer = a,
                                      !.session = cli.args.load_session]
                /\ sent' = sent \o requests
                /\ result' = result
                /\ CliUnchanged

CliSkipLoad ==
    /\ cli.pc = "run" /\ Branch(cli.args) = "load_switch_chat"
    /\ ~Truthy(cli.args.load_session)
    /\ cli' = [cli EXCEPT !.pc = "after_load"]
    /\ UNCHANGED <<sent, result>>
    /\ CliUnchanged

\* --switch-agent: its Result is returned unless it is success and a message follows
CliSwitchAgent ==
    /\ cli.pc = "after_load"
    /\ Truthy(cli.args.switch_agent)
    /\ \E r \in MessageOperationResults("switch_agent", cli.session),
          requests \in MessageOperationRequests("switch_agent", cli.session) :
          IF r.status # "success" \/ ~Truthy(cli.args.message)
          THEN Return(r, requests, cli.answer)
          ELSE /\ cli' = [cli EXCEPT !.pc = "after_switch", !.switch_result = r]
               /\ sent' = sent \o requests
               /\ result' = result
               /\ CliUnchanged

CliSkipSwitch ==
    /\ cli.pc = "after_load"
    /\ ~Truthy(cli.args.switch_agent)
    /\ cli' = [cli EXCEPT !.pc = "after_switch"]
    /\ UNCHANGED <<sent, result>>
    /\ CliUnchanged

\* --message: send_chat builds the images payload, then runs its message
\* operation (after validate_args a message is always given here: the last
\* statement of run_command, its own invalid_args Result, is not reached); an exception that send_chat does not catch ends main with a
\* traceback and no Result
CliSendChat ==
    /\ cli.pc = "after_switch"
    /\ Truthy(cli.args.message)
    /\ LET images == BuildImagesPayload(cli.args.image)
       IN  IF images = "invalid_args"
           THEN Return([InvalidArgsResult("image cannot be used")
                           EXCEPT !.session_id = cli.session], <<>>, cli.answer)
           ELSE IF images = "raises"
           THEN /\ cli' = [cli EXCEPT !.pc = "crashed"]
                /\ UNCHANGED <<sent, result>>
                /\ CliUnchanged
           ELSE \E r \in MessageOperationResults("chat", cli.session),
                   requests \in MessageOperationRequests("chat", cli.session) :
                   Return(r, requests, cli.answer)

\* (mutant) the exit code is 0 for status success only
CliExitSuccessOnly ==
    /\ cli.pc = "print"
    /\ cli' = [cli EXCEPT !.pc = "exit",
                          !.exit_code = IF result.status = "success" THEN "0" ELSE "1"]
    /\ UNCHANGED <<sent, result>>
    /\ CliUnchanged

\* main prints the Result as JSON and returns the exit code
CliExit ==
    /\ cli.pc = "print"
    /\ cli' = [cli EXCEPT !.pc = "exit",
                          !.exit_code =
                              IF result.status \in {"success", "requires_confirmation",
                                                    "requires_question"}
                              THEN "0" ELSE "1"]
    /\ UNCHANGED <<sent, result>>
    /\ CliUnchanged

NextCli ==
    \/ CliValidate
    \/ \E a \in HttpAnswers : CliHealth(a)
    \/ \E a \in HttpAnswers : CliListSessions(a)
    \/ \E a \in HttpAnswers : CliDeleteSession(a)
    \/ \E a \in HttpAnswers : CliListRollbackPoints(a)
    \/ \E a \in HttpAnswers : CliAbort(a)
    \/ CliMessageCommand
    \/ \E a \in HttpAnswers : CliLoadSession(a)
    \/ CliSkipLoad
    \/ CliSwitchAgent
    \/ CliSkipSwitch
    \/ CliSendChat
    \/ CliExit

SpecCli == InitCli /\ [][NextCli]_vars

\* the position in `sent` of the POST /message of the command with that
\* payload type, 0 when there is none
MessageIndex(type) ==
    IF \E i \in 1..Len(sent) : sent[i].path = "POST /message" /\ sent[i].type = type
    THEN CHOOSE i \in 1..Len(sent) :
            sent[i].path = "POST /message" /\ sent[i].type = type
    ELSE 0

\* the position in `sent` of the POST /session/load of --load-session
LoadIndex ==
    IF \E i \in 1..Len(sent) : sent[i] = Request("POST /session/load",
                                                 cli.args.load_session, NoneS)
    THEN CHOOSE i \in 1..Len(sent) : sent[i] = Request("POST /session/load",
                                                       cli.args.load_session, NoneS)
    ELSE 0

\* C36 (as stated): when one invocation combines load-session, switch-agent and
\* message, the operations run in the order load, switch, chat, each only if
\* the previous one returned status success, and the chat message is sent with
\* the session id of the session in which the agent switch was performed (the
\* session id of the Result of the switch), also when no session id was given
\* on the command line.
C36_ChatInSessionOfSwitch ==
    LET a == cli.args
        switch == MessageIndex("switch_agent")
        chat == MessageIndex("chat")
    IN  (cli.pc \in {"after_load", "after_switch", "print", "exit"}
            /\ validate_args(a) = NoneS /\ Branch(a) = "load_switch_chat") =>
            /\ (switch > 0 /\ Truthy(a.load_session)) =>
                  /\ LoadIndex > 0 /\ LoadIndex < switch
                  /\ cli.session = a.load_session
            /\ (chat > 0 /\ Truthy(a.load_session)) =>
                  /\ LoadIndex > 0 /\ LoadIndex < chat
                  /\ cli.session = a.load_session
            /\ (chat > 0 /\ Truthy(a.switch_agent)) =>
                  /\ cli.switch_result # NoResult
                  /\ cli.switch_result.status = "success"
            /\ (chat > 0 /\ switch > 0) =>
                  /\ switch < chat
                  /\ sent[chat].sessionId = cli.switch_result.session_id

-----------------------------------------------------------------------------
(* One client called several times (specification SpecCalls): the caller   *)
(* holds a SimpleSnowSSEClient and calls health_check and list_sessions on *)
(* it, one call after the other; cli.calls lists the calls made, each with *)
(* what the server gave and the Result returned.                           *)

\* the calls the caller makes on one client
MaxCalls == 2

\* another way urlopen fails to reach the host
ExcRefused == [type |-> "URLError", msg |-> "connection refused"]

CallAnswers == HttpAnswers \cup {PostError(ExcRefused)}

InitCalls ==
    /\ pc = "idle"
    /\ op = NoOp
    /\ rt = InitRuntime
    /\ handles = NoHandles
    /\ reader = [state |-> "none", delivered |-> 0]
    /\ post = [state |-> "none", outcome |-> NoOutcome, checked |-> FALSE]
    /\ td = InitTd
    /\ sent = <<>>
    /\ result = NoResult
    /\ hist = InitHist
    /\ stale = NoStale
    /\ cli = [pc |-> "caller", calls |-> <<>>]

\* a one-call command runs: it reads no field of the client but host, port and
\* the timeouts, and writes none
Call(command, request, a, r) ==
    /\ cli.pc = "caller"
    /\ Len(cli.calls) < MaxCalls
    /\ sent' = Append(sent, request)
    /\ result' = r
    /\ cli' = [cli EXCEPT !.calls =
                    Append(@, [command |-> command, answer |-> a, result |-> r])]
    /\ CliUnchanged

CallHealthCheck(a) ==
    Call("health_check", Request("GET /health", NoneS, NoneS), a, health_check(a))

CallListSessions(a) ==
    Call("list_sessions", Request("GET /session/list", NoneS, NoneS), a, list_sessions(a))

NextCalls ==
    \/ \E a \in CallAnswers : CallHealthCheck(a)
    \/ \E a \in CallAnswers : CallListSessions(a)

SpecCalls == InitCalls /\ [][NextCalls]_vars

-----------------------------------------------------------------------------
(* Properties of the message operation (specification Spec).               *)

AfterReturnStatement == pc \in {"finally", "td_join", "td_close", "returned"}

TeardownAttempted == hist.tdlog # <<>> /\ hist.tdlog[1] = "signal"

Commanded(path) == \E i \in 1..Len(sent) : sent[i].path = path

\* the POST /message answer is a failure: it raised, or its body has no true
\* success flag
PostFailed(o) == o.kind = "error" \/ (o.kind = "result" /\ ~GetB(o.body, "success"))

\* C1: a message operation hands exactly one Result to its caller, and only
\* after teardown of the event stream has been attempted.
C1_OneResultAfterTeardown ==
    /\ hist.returned = IF pc = "returned" THEN 1 ELSE 0
    /\ ~AfterReturnStatement => result = NoResult
    /\ pc = "returned" =>
          /\ result.status \in StatusSet
          /\ TeardownAttempted
          /\ rt.completed_event

C1_Witness ==
    /\ pc = "returned"
    /\ hist.source = "build"
    /\ result.status = "success"
    /\ hist.tdlog = <<"signal", "socket", "join", "close">>

\* C2: when the connect deadline expires with no connected event dispatched,
\* the Result is error / timeout and no POST /message, /session/create or
\* /session/load was issued.
C2_ConnectTimeoutSendsNothing ==
    hist.connect_timed_out =>
        /\ ~Commanded("POST /message")
        /\ ~Commanded("POST /session/create")
        /\ ~Commanded("POST /session/load")
        /\ AfterReturnStatement
        /\ result.status = "error"
        /\ result.error_code = "timeout"

C2_Witness ==
    /\ pc = "returned"
    /\ hist.connect_timed_out
    /\ reader.delivered > 0
    /\ result.error_code = "timeout"

\* C3 as stated: once the terminal signal has been seen by the polling loop of a
\* command that waits for it, the Result is the one built from the Correlator
\* state, whatever the POST /message has done.
C3_TerminalAlwaysBuilds ==
    (hist.exit = "terminal" /\ AfterReturnStatement) =>
        (hist.source = "build" /\ result = BuildResult(rt))

\* C3 amended: once the terminal signal has been seen by the polling loop, the
\* Result is the one built from the Correlator state when the POST /message is
\* still pending or has succeeded at the check after the loop; when it has
\* failed by then, the Result is the error Result of that failure.
C3_TerminalBuildsUnlessPostFailed ==
    (hist.exit = "terminal" /\ AfterReturnStatement) =>
        /\ op.wait_sse_completion
        /\ IF post.checked /\ PostFailed(post.outcome)
           THEN /\ hist.source = "except"
                /\ result.status = "error"
                /\ hist.post_at_break \in {"pending", "failed"}
           ELSE /\ hist.source = "build"
                /\ result = BuildResult(rt)
                /\ hist.post_at_break \in {"pending", "ok", "checked_ok"}

C3_Witness ==
    /\ pc = "returned"
    /\ hist.exit = "terminal"
    /\ hist.post_at_break = "pending"
    /\ post.state = "done" /\ PostFailed(post.outcome)
    /\ result.status = "success"

\* C4: for a command that waits for the terminal signal, a POST /message answer
\* with a non-success body ends the operation with an error Result in the step
\* that checks it: the polling loop is not entered again.
C4_PostFailureEndsAtOnce ==
    (op.wait_sse_completion /\ post.checked /\ post.outcome.kind = "result"
        /\ ~GetB(post.outcome.body, "success")) =>
        /\ AfterReturnStatement
        /\ hist.source = "except"
        /\ result.status = "error"
        /\ result.error_code = "unexpected_error"

C4_Witness ==
    /\ pc = "returned"
    /\ op.wait_sse_completion
    /\ hist.exit = "post_failed"
    /\ post.outcome = PostResult([success |-> FALSE])
    /\ hist.terminal = None
    /\ ~ReaderAlive
    /\ result.error_code = "unexpected_error"

\* C7 as stated: a tool_confirmation_request (user_question_request) dispatched
\* before any terminal event, in an operation whose terminal set has that kind,
\* ends the operation with status requires_confirmation (requires_question).
C7_InteractiveAlwaysEndsOperation ==
    (pc = "returned" /\ hist.terminal_at_result # None
        /\ hist.terminal_at_result.type
              \in {"tool_confirmation_request", "user_question_request"}) =>
        result.status \in {"requires_confirmation", "requires_question"}

\* C7 amended: such an event makes the Result built from the Correlator state
\* requires_confirmation (requires_question), with the event's requestId and
\* its data payload unchanged; an operation that fails first (a deadline
\* expires, a session call raises, the POST /message fails) ends with that
\* error instead.
C7_InteractiveResult ==
    (AfterReturnStatement /\ hist.terminal_at_result # None
        /\ hist.terminal_at_result.type
              \in {"tool_confirmation_request", "user_question_request"}) =>
        LET ev == hist.terminal_at_result
        IN  IF hist.source = "build"
            THEN /\ result.status =
                        IF ev.type = "tool_confirmation_request"
                        THEN "requires_confirmation" ELSE "requires_question"
                 /\ result.request_id = ev.requestId
                 /\ result.request_data = ev.data
            ELSE /\ result.status = "error"
                 /\ result.request_id = NoneS

C7_Witness ==
    /\ pc = "returned"
    /\ op.kind = "chat"
    /\ hist.source = "build"
    /\ hist.terminal_at_result = EvConfirm
    /\ result.status = "requires_confirmation"
    /\ result.request_id = "r1"
    /\ result.request_data = [toolCall |-> "t"]

\* C9: teardown does its steps in one order on every run: the completion signal
\* is set, then the socket is closed, then the Reader is joined (or the join
\* times out), then the stream handle is closed (or that close times out); a
\* step is left out only when its handle is absent.
TdRank(step) ==
    IF step = "signal" THEN 1
    ELSE IF step = "socket" THEN 2
    ELSE IF step \in {"join", "join_timeout"} THEN 3
    ELSE 4

C9_TeardownOrder ==
    LET log == hist.tdlog
    IN  /\ \A i, j \in 1..Len(log) : i < j => TdRank(log[i]) < TdRank(log[j])
        /\ pc \in {"td_join", "td_close", "returned"} =>
              /\ log # <<>> /\ log[1] = "signal"
              /\ rt.completed_event
              /\ td.stream_sock <=> (\E i \in 1..Len(log) : log[i] = "socket")
        /\ pc \in {"td_close", "returned"} =>
              (td.reader_thread <=> (\E i \in 1..Len(log) : TdRank(log[i]) = 3))
        /\ pc = "returned" =>
              (td.stream_response <=> (\E i \in 1..Len(log) : TdRank(log[i]) = 4))
        /\ pc \notin {"td_join", "td_close", "returned"} => log = <<>>

C9_Witness ==
    /\ pc = "returned"
    /\ hist.tdlog = <<"signal", "socket", "join_timeout", "close_timeout">>
    /\ ReaderAlive
    /\ td.closer = "running"

\* C10: on every return path of a message operation teardown has run: the
\* completion signal is set and the client holds no stream handle, no socket
\* handle and no Reader reference.
C10_ClosedOnEveryReturn ==
    pc = "returned" =>
        /\ TeardownAttempted
        /\ rt.completed_event
        /\ ~handles.stream_response
        /\ ~handles.stream_sock
        /\ ~handles.reader_thread

C10_Witness ==
    /\ pc = "returned"
    /\ result.error_code = "unexpected_error"
    /\ td.stream_sock
    /\ ReaderAlive
    /\ handles = NoHandles

-----------------------------------------------------------------------------
(* Properties of the Correlator (specification SpecCorr).                  *)

\* C5: _build_result decides by the first rule that matches, in this order: a
\* stored pending request; a stored error; the typed payload of the kind of the
\* recorded final event; else the generic success.  A pending request wins over
\* an error and over a typed payload, and a typed payload of another kind than
\* the final event is not used.
C5_BuildPrecedence ==
    pc = "corr_done" =>
        LET p == rt.pending_request
            e == rt.error
            kind == IF rt.final_event = None THEN "none" ELSE rt.final_event.type
            typed == \/ kind = "agent_list" /\ rt.agent_list_data # None
                     \/ kind = "agent_switched" /\ rt.agent_switched_data # None
                     \/ kind = "rollback_result" /\ rt.rollback_result_data # None
        IN  IF p # None
            THEN /\ result.status = p.status
                 /\ result.status \in {"requires_confirmation", "requires_question"}
                 /\ result.request_id = p.request_id
                 /\ result.error_code = NoneS
                 /\ result.agents = NoneL /\ result.current_agent_id = NoneS
            ELSE IF e # None
            THEN /\ result.status = "error"
                 /\ result.error_code = e.error_code
                 /\ result.message = e.message
                 /\ result.agents = NoneL /\ result.current_agent_id = NoneS
                 /\ result.request_data = None
            ELSE IF typed
            THEN /\ kind = "agent_list" =>
                        /\ result.status = "success"
                        /\ result.agents # NoneL
                        /\ result.request_data = None
                 /\ kind = "agent_switched" =>
                        /\ result.status = "success"
                        /\ result.current_agent_id =
                               GetS(rt.agent_switched_data, "currentAgentId")
                        /\ result.agents = NoneL
                        /\ result.request_data = None
                 /\ kind = "rollback_result" =>
                        /\ result.request_data = rt.rollback_result_data
                        /\ result.agents = NoneL
                        /\ result.status \in {"success", "error"}
            ELSE /\ result.status = "success"
                 /\ result.agents = NoneL
                 /\ result.current_agent_id = NoneS
                 /\ result.request_data = None
                 /\ result.usage = rt.usage

C5_Witness ==
    /\ pc = "corr_done"
    /\ rt.pending_request # None
    /\ rt.error # None
    /\ rt.agent_switched_data # None
    /\ result.status = "requires_confirmation"

\* C6: in a chat operation that ends with a terminal complete event, with no
\* pending request and no error stored, the success Result's messages are the
\* user entries in arrival order and then at most one assistant entry: the last
\* non-streaming assistant content when that is not empty, else the last
\* streaming content.
C6_Messages ==
    (pc = "corr_done" /\ op.kind = "chat"
        /\ hist.terminal # None /\ hist.terminal.type = "complete"
        /\ rt.pending_request = None /\ rt.error = None) =>
        LET last_stream == IF hist.streams = <<>> THEN NoneS
                           ELSE hist.streams[Len(hist.streams)]
            content == IF Truthy(hist.last_final) THEN hist.last_final
                       ELSE last_stream
            entry(c) == IF rt.outbound_image_names # <<>>
                        THEN [role |-> "user", content |-> c,
                              images |-> rt.outbound_image_names]
                        ELSE [role |-> "user", content |-> c]
            users == [i \in 1..Len(hist.users) |-> entry(hist.users[i])]
        IN  /\ result.status = "success"
            /\ result.messages =
                   IF Truthy(content)
                   THEN Append(users, [role |-> "assistant", content |-> content])
                   ELSE users

C6_Witness ==
    /\ pc = "corr_done"
    /\ op.kind = "chat"
    /\ rt.connected_event
    /\ reader.delivered = 5
    /\ hist.users = <<"hi">>
    /\ hist.streams = <<"a", "ab">>
    /\ hist.terminal # None /\ hist.terminal.type = "complete"
    /\ result.status = "success"
    /\ result.messages = <<[role |-> "user", content |-> "hi"],
                           [role |-> "assistant", content |-> "ab"]>>

\* C8 as stated: in a rollback operation whose terminal event is
\* rollback_result, the Result is success when the payload's success flag is
\* true, and error / rollback_failed with the payload's error text when not.
C8_RollbackResultDecides ==
    (pc = "corr_done" /\ op.kind = "rollback"
        /\ hist.terminal # None /\ hist.terminal.type = "rollback_result") =>
        IF GetB(hist.terminal.data, "success")
        THEN result.status = "success"
        ELSE /\ result.status = "error"
             /\ result.error_code = "rollback_failed"

\* C8 amended: the same, when no pending interactive request was stored before
\* the rollback_result (a stored pending request decides the Result first).
C8_RollbackResultUnlessPending ==
    (pc = "corr_done" /\ op.kind = "rollback"
        /\ hist.terminal # None /\ hist.terminal.type = "rollback_result"
        /\ rt.pending_request = None) =>
        LET d == hist.terminal.data
        IN  IF GetB(d, "success")
            THEN result.status = "success"
            ELSE /\ result.status = "error"
                 /\ result.error_code = "rollback_failed"
                 /\ Truthy(GetS(d, "error")) => result.message = d.error

C8_Witness ==
    /\ pc = "corr_done"
    /\ op.kind = "rollback"
    /\ hist.terminal = EvRollbackFail
    /\ result.status = "error"
    /\ result.error_code = "rollback_failed"
    /\ result.message = "conflict"
    /\ result.session_id = "s1"

\* C13: a fire-and-continue command (confirm, reject, answer) leaves the polling
\* loop at the first check of a POST /message that completed successfully,
\* whether or not a terminal event has arrived, and it never leaves the loop
\* for a terminal event: the Result is built right after that check.
FireAndContinue == op.kind \in {"confirm", "reject", "answer"}

C13_FireAndContinue ==
    /\ (FireAndContinue /\ pc = "loop" /\ post.state = "done"
            /\ LoopPostCheck(post.outcome) = NoExc) =>
          /\ ~post.checked
          /\ ENABLED (LoopCheckPost /\ pc' = "after_loop")
          /\ ~ENABLED LoopBreakCompleted
    /\ (FireAndContinue /\ AfterReturnStatement /\ hist.source = "build") =>
          /\ hist.exit = "post_ok"
          /\ post.checked /\ LoopPostCheck(post.outcome) = NoExc

C13_Witness ==
    /\ pc = "returned"
    /\ op.kind = "confirm"
    /\ hist.exit = "post_ok"
    /\ hist.terminal = None
    /\ ReaderAlive
    /\ result.status = "success"

\* C12: every message operation that has begun eventually returns its Result,
\* whatever the server, the POST /message thread, the Reader and the stream
\* close do, provided the calling thread runs and the clock advances.
C12_EveryOperationReturns ==
    (pc = "open") ~> (pc = "returned")

\* no terminal event, the POST never returns, the Reader never exits and the
\* close hangs: the overall deadline gives the timeout Result
C12_Witness ==
    /\ pc = "returned"
    /\ hist.exit = "deadline"
    /\ result.status = "error" /\ result.error_code = "timeout"
    /\ hist.terminal = None
    /\ post.state = "pending"
    /\ ReaderAlive
    /\ td.closer = "running"
    /\ hist.tdlog = <<"signal", "socket", "join_timeout", "close_timeout">>

-----------------------------------------------------------------------------
(* Properties of two operations in sequence (specification SpecSeq).       *)

\* C11: when two message operations run one after the other on the same client,
\* nothing the first operation's Reader handles after the first operation has
\* returned (an event, a stream read failure) changes the Result of the second:
\* a second operation whose own stream has delivered no terminal event and
\* whose own Reader has not stopped does not return, from its stored state,
\* an error of the event stream or of the server.
C11_SecondResultIsItsOwn ==
    (pc = "returned" /\ stale.state # "none" /\ hist.source = "build"
        /\ hist.terminal = None /\ reader.state # "done") =>
        result.error_code \notin {"event_stream_error", "server_error"}

\* C31 (as stated): a command that requires an SSE wait returns a Result other
\* than error only if an event whose kind is in its terminal set was dispatched
\* on the stream of that same operation; send_chat returns status success only
\* after a complete event of that operation.
C31_NonErrorOnlyAfterOwnTerminal ==
    (pc = "returned" /\ op.wait_sse_completion /\ result.status # "error") =>
        /\ hist.terminal_at_result # None
        /\ hist.terminal_at_result.type \in op.completion_events
        /\ (op.kind = "chat" /\ result.status = "success") =>
               hist.terminal_at_result.type = "complete"

-----------------------------------------------------------------------------
(* Properties of the command line (specification SpecCli).                 *)

\* run_command has returned the Result of the --abort branch
AbortReturned ==
    /\ cli.pc \in {"print", "exit"}
    /\ validate_args(cli.args) = NoneS
    /\ Branch(cli.args) = "abort"

\* C14: abort never opens an SSE stream and never waits for a terminal event;
\* it issues exactly one POST /message, and its Result is status success if
\* and only if the server's response has a true success flag.
C14_AbortIsOnePost ==
    AbortReturned =>
        /\ sent = <<MessageRequest("abort", cli.args.session)>>
        /\ handles = NoHandles /\ reader.state = "none" /\ pc = "idle"
        /\ rt = InitRuntime
        /\ (result.status = "success") <=>
              (cli.answer.kind = "result" /\ GetB(cli.answer.body, "success"))

C14_Witness ==
    /\ AbortReturned /\ cli.pc = "exit"
    /\ result.status = "success"
    /\ cli.answer = PostResult([success |-> TRUE])
    /\ Len(sent) = 1 /\ sent[1].type = "abort"


\* C18: every failure of every public command, an unreadable image file
\* among them, is caught and returned as a Result with status error; no
\* exception reaches the caller of the command.
C18_NoExceptionEscapes ==
    /\ cli.pc # "crashed"
    /\ (cli.pc \in {"print", "exit"}) => result.status \in
          {"success", "error", "requires_confirmation", "requires_question"}

\* the server answered the one-call command that names a session with HTTP
\* 404 or 400 and a body saying the session was not found
AnsweredSessionNotFound ==
    /\ cli.pc \in {"print", "exit"}
    /\ validate_args(cli.args) = NoneS
    /\ Branch(cli.args) \in
          {"delete_session", "list_rollback_points", "abort", "load_switch_chat"}
    /\ cli.answer.kind = "error"
    /\ cli.answer.exc.type = "HTTPError"
    /\ cli.answer.exc.code \in {404, 400}
    /\ cli.answer.exc.msg \in SessionNotFoundTexts

\* C19: when the server answers a command that names a session (load-session,
\* delete-session, list-rollback-points, abort) with HTTP 404 or 400 and a
\* body saying the session was not found, the Result is status error with
\* error_code session_not_found.
C19_SessionNotFound ==
    AnsweredSessionNotFound =>
        result.status = "error" /\ result.error_code = "session_not_found"

\* C20: a Result with error_code invalid_args is only produced before any
\* network request of the invocation: in every run of main that ends with
\* invalid_args, no HTTP request was issued and no SSE stream was opened.
C20_InvalidArgsBeforeNetwork ==
    (cli.pc \in {"print", "exit"} /\ result.error_code = "invalid_args") => sent = <<>>

\* C22: the exit code is 0 exactly when the Result's status is success,
\* requires_confirmation or requires_question, and non-zero for every other
\* status, the invalid_args Result of argument validation included.
C22_ExitCode ==
    cli.pc = "exit" =>
        /\ cli.exit_code \in {"0", "1"}
        /\ (cli.exit_code = "0") <=>
              (result.status \in {"success", "requires_confirmation", "requires_question"})
        /\ validate_args(cli.args) # NoneS =>
              /\ result.error_code = "invalid_args"
              /\ cli.exit_code = "1"

C22_Witness ==
    /\ cli.pc = "exit"
    /\ validate_args(cli.args) = NoneS
    /\ result.status = "requires_confirmation"
    /\ cli.exit_code = "0"

\* call i of the caller was health_check and the host could not be reached
HealthUnreachable(i) ==
    /\ cli.calls[i].command = "health_check"
    /\ cli.calls[i].answer.kind = "error"
    /\ cli.calls[i].answer.exc.type = "URLError"

\* C23: two health_check calls against an unreachable host return Results
\* with the same status error, the same error_code connection_failed and the
\* same suggestion text, and a call leaves no state that changes a later one.
C23_HealthCheckRepeatable ==
    cli.pc = "caller" =>
        /\ \A i, j \in 1..Len(cli.calls) :
              (HealthUnreachable(i) /\ HealthUnreachable(j)) =>
                  /\ cli.calls[i].result.status = "error"
                  /\ cli.calls[i].result.error_code = "connection_failed"
                  /\ cli.calls[j].result.status = cli.calls[i].result.status
                  /\ cli.calls[j].result.error_code = cli.calls[i].result.error_code
                  /\ cli.calls[j].result.suggestion = cli.calls[i].result.suggestion
        /\ rt = InitRuntime /\ handles = NoHandles /\ reader.state = "none"
        /\ \A i \in 1..Len(cli.calls) :
              cli.calls[i].command = "health_check" =>
                  cli.calls[i].result = health_check(cli.calls[i].answer)

C23_Witness ==
    /\ cli.pc = "caller"
    /\ Len(cli.calls) = 2
    /\ HealthUnreachable(1) /\ HealthUnreachable(2)
    /\ cli.calls[1].answer # cli.calls[2].answer
    /\ cli.calls[1].result.suggestion = cli.calls[2].result.suggestion
    /\ cli.calls[2].result.error_code = "connection_failed"

-----------------------------------------------------------------------------
(* Properties of the commands that run a message operation (specification  *)
(* Spec).                                                                  *)

\* list_agents has returned its Result to its caller
ListAgentsReturned ==
    pc = "returned" /\ op.kind = "list_agents" /\ hist.command_result # NoResult

\* every command sent is switch_agent with the agent id that does not exist
ProbeOnly ==
    \A i \in 1..Len(sent) :
        sent[i].path = "POST /message" =>
            sent[i].type = "switch_agent" /\ sent[i].agentId = AgentProbe

\* an error event whose payload carries an available-agents list
CarriesAgents(ev) ==
    ev # None /\ ev.type = "error" /\ IsDict(ev) /\ Has(ev.data, "availableAgents")

\* C15 (as stated): list-agents sends switch_agent with the invalid agent id;
\* when the terminal event (the first one dispatched before the Result was
\* made) is an error event that carries an available-agents
\* list, the Result is status success with agents equal to that list; when the
\* terminal error carries no list, the error Result is returned unchanged.
C15_AgentsFromTerminalError ==
    ListAgentsReturned =>
        /\ ProbeOnly
        /\ CarriesAgents(hist.terminal_at_result) =>
              /\ hist.command_result.status = "success"
              /\ hist.command_result.agents = hist.terminal_at_result.data.availableAgents
        /\ (hist.terminal_at_result # None /\ hist.terminal_at_result.type = "error"
                /\ ~CarriesAgents(hist.terminal_at_result)) =>
              /\ hist.command_result.status = "error"
              /\ hist.command_result = result

\* C15 (amended): list-agents sends switch_agent with the invalid agent id; when
\* the Result is built from the Correlator's state, no pending interactive
\* request is stored and the stored error (that of the last error event
\* dispatched) carries an available-agents list, the Result is status success
\* with agents equal to that list; when the stored error carries no list, or
\* the operation ended in an except clause, the error Result is returned
\* unchanged.
C15_AgentsFromStoredError ==
    ListAgentsReturned =>
        /\ ProbeOnly
        /\ (hist.source = "build" /\ hist.pending_at_result = None
                /\ hist.error_at_result # None
                /\ Has(hist.error_at_result, "available_agents")) =>
              /\ hist.command_result.status = "success"
              /\ hist.command_result.error_code = NoneS
              /\ hist.command_result.agents = hist.error_at_result.available_agents
        /\ (\/ hist.source = "except"
            \/ /\ hist.source = "build" /\ hist.pending_at_result = None
               /\ hist.error_at_result # None
               /\ ~Has(hist.error_at_result, "available_agents")) =>
              /\ hist.command_result.status = "error"
              /\ hist.command_result = result

C15_Witness ==
    /\ ListAgentsReturned
    /\ hist.source = "build"
    /\ hist.terminal_at_result = EvErrorAgents
    /\ hist.command_result.status = "success"
    /\ hist.command_result.agents = <<"g1">>
    /\ result.status = "error"
    /\ \E i \in 1..Len(sent) : sent[i].path = "POST /message"

\* POST /message has been issued for a command that was given a session id
MessageSentWithSession(i) ==
    /\ i \in 1..Len(sent)
    /\ sent[i].path = "POST /message"
    /\ Truthy(op.session_id)

\* C16 (as stated): for every message operation given an explicit session id,
\* POST /session/load with that session id and the connection id of the new
\* stream is issued after the connected event and before POST /message.
C16_LoadBeforeMessage ==
    \A i \in 1..Len(sent) :
        MessageSentWithSession(i) =>
            /\ rt.connected_event
            /\ \E j \in 1..(i - 1) :
                  /\ sent[j].path = "POST /session/load"
                  /\ sent[j].sessionId = op.session_id
                  /\ Truthy(sent[j].connectionId)

\* C16 (amended): for every message operation given an explicit session id,
\* POST /message is issued after the connected event; when that event carried
\* a connection id, POST /session/load with the session id and that connection
\* id is issued just before POST /message; when it carried none, no
\* POST /session/load is issued.
C16_LoadBeforeMessageWhenConnectionId ==
    \A i \in 1..Len(sent) :
        MessageSentWithSession(i) =>
            /\ rt.connected_event
            /\ IF Truthy(hist.connection_id_at_send)
               THEN /\ i > 1
                    /\ sent[i - 1] = Request("POST /session/load", op.session_id,
                                             hist.connection_id_at_send)
                    /\ rt.connection_id = hist.connection_id_at_send
               ELSE ~Commanded("POST /session/load")

C16_Witness ==
    /\ pc = "loop"
    /\ op.session_id = "s1"
    /\ Len(sent) = 3
    /\ sent[1].path = "GET /events"
    /\ sent[2] = Request("POST /session/load", "s1", "c1")
    /\ sent[3].path = "POST /message" /\ sent[3].sessionId = "s1"

\* the commands that pass ensure_session_if_missing=True
EnsuringKinds == {"chat", "switch_agent", "list_agents"}

\* a session is created only for a command of an ensuring kind that was given
\* no session id, and the request names the connection
CreatesOnlyWhenConfigured ==
    \A i \in 1..Len(sent) :
        sent[i].path = "POST /session/create" =>
            /\ ~Truthy(op.session_id)
            /\ op.kind \in EnsuringKinds
            /\ Truthy(sent[i].connectionId)
            /\ sent[i].connectionId = hist.connection_id_at_send

\* the created id is the sessionId of the /message payload
CreatedIdIsSent ==
    Truthy(hist.created) =>
        \A i \in 1..Len(sent) :
            sent[i].path = "POST /message" => sent[i].sessionId = hist.created

\* the Result names the created session, or one that a dispatched event named
NamesCreatedOrEventSession(r) ==
    \/ r.session_id = hist.created
    \/ /\ Truthy(r.session_id)
       /\ \E ev \in StreamPool :
             /\ ev.json = "object" /\ IsDict(ev)
             /\ GetS(ev.data, "sessionId") = r.session_id

\* C17 (as stated): a session is created only when no session id was supplied
\* and the command is chat, switch-agent or list-agents; confirm, reject,
\* answer and rollback never create one; when creation succeeds, the created
\* id is the sessionId of the /message payload and the session id of the
\* Result unless a later event replaces it.
C17_AutoCreate ==
    /\ CreatesOnlyWhenConfigured
    /\ CreatedIdIsSent
    /\ (pc = "returned" /\ Truthy(hist.created)) => NamesCreatedOrEventSession(result)

\* C17 (amended): as stated for the requests; when creation succeeds, the
\* created id is the session id of a Result built from the Correlator's state
\* and of a timeout or unexpected_error Result, unless a later event replaces
\* it; a Result made of an HTTP error or a connection failure of POST /message
\* names no session.
C17_AutoCreateResultBuilt ==
    /\ CreatesOnlyWhenConfigured
    /\ CreatedIdIsSent
    /\ (pc = "returned" /\ Truthy(hist.created)) =>
          IF hist.source = "build" \/ result.error_code \in {"timeout", "unexpected_error"}
          THEN NamesCreatedOrEventSession(result)
          ELSE /\ result.error_code \in
                      {"connection_failed", "server_error", "session_not_found"}
               /\ result.session_id = NoneS

C17_Witness ==
    /\ pc = "returned"
    /\ op.kind = "chat"
    /\ hist.created = "s9"
    /\ result.status = "success" /\ result.session_id = "s9"
    /\ \E i \in 1..Len(sent) : sent[i] = Request("POST /session/create", NoneS, "c1")
    /\ \E i \in 1..Len(sent) : sent[i].path = "POST /message" /\ sent[i].sessionId = "s9"

-----------------------------------------------------------------------------
(* Properties of the Result and of the Reader (specification Spec).        *)

\* r has one of the four statuses, and an error code when the status is error
WellFormedResult(r) ==
    /\ r.status \in StatusSet
    /\ r.status = "error" => Truthy(r.error_code)

\* C21: every Result has exactly one status out of success,
\* requires_confirmation, requires_question and error, and every Result with
\* status error carries an error code.
C21_ResultStatus ==
    /\ result # NoResult => WellFormedResult(result)
    /\ hist.command_result # NoResult => WellFormedResult(hist.command_result)

C21_Witness ==
    /\ pc = "returned"
    /\ hist.source = "build"
    /\ hist.terminal_at_result = EvErrorAgents
    /\ result.status = "error" /\ result.error_code = "server_error"

\* C24: every write to the shared state that can occur while the Reader is
\* running is made holding the lock; the Orchestrator never writes the session
\* id without the lock while the Reader may write it, so a session id adopted
\* from a stream event is never overwritten by an unsynchronised write.
C24_SessionIdWritesLocked ==
    /\ hist.session_write.reader_alive => hist.session_write.locked
    /\ ~(hist.session_write.over_event /\ ~hist.session_write.locked)

\* the Reader's loop is left through its except clause: reading the stream
\* raised, or handling a block did
ReaderFails ==
    \/ ReaderReadFails
    \/ \E ev \in StreamPool : ReaderDispatch(ev) /\ HandleDataBlock(rt, ev).raised

StreamErrorStored == rt.error # None /\ rt.error.error_code = "event_stream_error"

\* C25: a stream read failure stores the synthetic error event_stream_error
\* and sets the completion signal if and only if the completion signal was not
\* set when the failure occurred; a failure after completion stores no error
\* and does not change the Result.
C25_ReadFailure ==
    /\ [][ReaderFails =>
            /\ IF rt.completed_event
               THEN rt' = rt
               ELSE /\ rt'.completed_event
                    /\ rt'.error = [error_code |-> "event_stream_error",
                                    message |-> "stream read failed"]
                    /\ rt' = [rt EXCEPT !.error = rt'.error, !.completed_event = TRUE]
            /\ result' = result]_vars
    /\ [](StreamErrorStored => rt.final_event = None)

C25_Witness ==
    /\ pc = "returned"
    /\ reader.state = "done"
    /\ StreamErrorStored /\ rt.completed_event
    /\ hist.source = "build"
    /\ result.error_code = "event_stream_error"

-----------------------------------------------------------------------------
(* Properties of the Reader's handling of blocks (specification SpecCorr). *)

\* C26: a data block that is not valid JSON is discarded and is never fatal:
\* handling it changes no Correlator state, sets neither the connected nor the
\* completion signal, and the Reader goes on to dispatch the following blocks.
C26_InvalidJsonDiscarded ==
    /\ [][CorrDispatch(EvInvalid) =>
            /\ rt' = rt
            /\ reader'.state = "running"
            /\ UNCHANGED <<pc, result, handles>>]_vars
    /\ []((pc = "corr" /\ hist.invalid_seen /\ reader.state = "running"
              /\ reader.delivered < MaxCorrEvents) =>
             \A ev \in EventPool : ENABLED CorrDispatch(ev))

\* the only block handled so far was not valid JSON, and the Reader is running
C26_Witness ==
    /\ pc = "corr"
    /\ hist.invalid_seen
    /\ reader.delivered = 1 /\ reader.state = "running"
    /\ rt = ResetRuntimeState(op.session_id, op.completion_events, rt.outbound_image_names)
    /\ ENABLED CorrDispatch(EvComplete)

\* a message event with the given role
MessageEvent(ev, role) ==
    /\ ev.json = "object" /\ ev.type = "message" /\ IsDict(ev)
    /\ GetS(ev.data, "role") = role

\* the content of a message event: "" when it has none
ContentOf(ev) == IF GetS(ev.data, "content") = NoneS THEN "" ELSE ev.data.content

\* the history entry of a user message event
UserEntry(ev) ==
    IF rt.outbound_image_names # <<>>
    THEN [role |-> "user", content |-> ContentOf(ev), images |-> rt.outbound_image_names]
    ELSE [role |-> "user", content |-> ContentOf(ev)]

\* C28 (as stated): every message event with role=user that the Reader
\* dispatches appends exactly one entry {role:user, content, images if any were
\* attached} to the message history, whatever its content; message events with
\* role=system never append.
C28_EveryUserEventAppends ==
    [][\A ev \in EventPool :
          CorrDispatch(ev) =>
              /\ MessageEvent(ev, "user") =>
                    rt'.messages = Append(rt.messages, UserEntry(ev))
              /\ MessageEvent(ev, "system") => rt'.messages = rt.messages]_vars

\* C28 (amended): every message event with role=user and a content that is
\* not empty appends exactly one entry {role:user, content, images if any were
\* attached} at the end of the message history; a user event whose content is
\* empty or missing appends nothing; message events with role=system never
\* append.
C28_UserEventWithContentAppends ==
    [][\A ev \in EventPool :
          CorrDispatch(ev) =>
              /\ MessageEvent(ev, "user") =>
                    rt'.messages = IF ContentOf(ev) # ""
                                   THEN Append(rt.messages, UserEntry(ev))
                                   ELSE rt.messages
              /\ MessageEvent(ev, "system") => rt'.messages = rt.messages]_vars

C28_Witness ==
    /\ pc = "corr"
    /\ reader.delivered = 2
    /\ hist.users = <<"hi", "hi">>
    /\ Len(rt.messages) = 2
    /\ rt.messages[2] = [role |-> "user", content |-> "hi", images |-> <<"a.png">>]

-----------------------------------------------------------------------------
(* Properties of the Reader within one operation (specification Spec).     *)

\* C27: within one operation the final-event record is written at most once,
\* and after the first event of a terminal kind has been dispatched the Reader
\* dispatches no further event, so no later event changes the state from
\* which the Result is built (the Orchestrator's session call may still write
\* the session id).
C27_FirstTerminalOnly ==
    /\ [](hist.terminal # None =>
             /\ reader.state = "done"
             /\ rt.completed_event
             /\ rt.final_event # None
             /\ rt.final_event.type = hist.terminal.type)
    /\ [][hist.terminal # None =>
             /\ reader' = reader
             /\ hist'.terminal = hist.terminal
             /\ [rt' EXCEPT !.session_id = rt.session_id] = rt]_vars
    /\ [][rt.final_event # None => rt'.final_event = rt.final_event]_vars

\* the Reader has stopped after a terminal event with blocks left on the stream
C27_Witness ==
    /\ pc = "returned"
    /\ hist.terminal = EvComplete
    /\ reader.state = "done" /\ reader.delivered < MaxEvents
    /\ rt.final_event # None /\ rt.final_event.type = "complete"


FinalEventOf(s, ev) ==
    /\ s.final_event # None
    /\ s.final_event.type = ev.type
    /\ s.final_event.request_id = ev.requestId
    /\ s.final_event.data = IF IsDict(ev) THEN ev.data ELSE EmptyMap

\* the payload of the terminal event ev is in the stored state
PayloadStored(s, ev) ==
    CASE ev.type = "tool_confirmation_request" ->
            s.pending_request =
                PendingRequest("requires_confirmation", ev.requestId, ev.data)
      [] ev.type = "user_question_request" ->
            s.pending_request =
                PendingRequest("requires_question", ev.requestId, ev.data)
      [] ev.type = "agent_list" -> s.agent_list_data = ev.data
      [] ev.type = "agent_switched" -> s.agent_switched_data = ev.data
      [] ev.type = "rollback_result" -> s.rollback_result_data = ev.data
      [] ev.type = "error" ->
            /\ s.error # None
            /\ s.error.error_code =
                   IF IsDict(ev) THEN OrS(GetS(ev.data, "errorCode"), "server_error")
                   ELSE "server_error"
      [] ev.type = "complete" ->
            Truthy(GetS(ev.data, "sessionId")) => s.session_id = ev.data.sessionId

\* the Result r is the one of the terminal event recorded in s
ReflectsTerminal(r, s) ==
    CASE s.final_event.type = "tool_confirmation_request" ->
            /\ r.status = "requires_confirmation"
            /\ r.request_id = s.final_event.request_id
            /\ r.request_data = s.final_event.data
      [] s.final_event.type = "user_question_request" ->
            /\ r.status = "requires_question"
            /\ r.request_id = s.final_event.request_id
            /\ r.request_data = s.final_event.data
      [] s.final_event.type = "error" -> s.error # None /\ r = ErrorResult(s)
      [] s.final_event.type = "agent_list" -> r = AgentListResult(s)
      [] s.final_event.type = "agent_switched" -> r = AgentSwitchedResult(s)
      [] s.final_event.type = "rollback_result" -> r = RollbackResult(s)
      [] s.final_event.type = "complete" -> r = GenericResult(s)

\* wherever the completion signal is set, the Reader has stored before it
\* either the final-event record and the payload of the terminal event, or the
\* error event_stream_error of a read failure
StoredBeforeSignal ==
    rt.completed_event =>
        IF hist.terminal # None
        THEN FinalEventOf(rt, hist.terminal) /\ PayloadStored(rt, hist.terminal)
        ELSE rt.final_event = None /\ StreamErrorStored

\* a Result was built after the completion signal was set
BuiltAfterSignal == pc = "corr_done" /\ rt.completed_event

\* C30 (as stated): for every terminal event the Reader stores the event's
\* payload and the final-event record before it sets the completion signal, so
\* wherever the signal is set either a final event is recorded or the stored
\* error is event_stream_error; and a Result built after observing the signal
\* always reflects the terminal event.
C30_ResultReflectsTerminal ==
    /\ StoredBeforeSignal
    /\ (BuiltAfterSignal /\ rt.final_event # None) => ReflectsTerminal(result, rt)

\* C30 (amended): the same stores before the signal; a Result built from the
\* stored state after the signal reflects the terminal event unless a pending
\* interactive request stored by an earlier event is still stored: then the
\* Result is that request.  After a read failure it is the error
\* event_stream_error, with the same exception.
C30_StoreBeforeSignal ==
    /\ StoredBeforeSignal
    /\ BuiltAfterSignal =>
          IF rt.pending_request # None
          THEN result = PendingResult(rt)
          ELSE IF rt.final_event # None
          THEN ReflectsTerminal(result, rt)
          ELSE result.status = "error" /\ result.error_code = "event_stream_error"

C30_Witness ==
    /\ pc = "corr_done"
    /\ op.kind = "switch_agent"
    /\ rt.completed_event
    /\ hist.terminal = EvAgentSwitched
    /\ rt.final_event # None /\ rt.final_event.type = "agent_switched"
    /\ rt.pending_request # None
    /\ result.status = "requires_confirmation"

-----------------------------------------------------------------------------
(* Properties of a stream that stops early (specification Spec).           *)

\* a terminal event or a stream read failure was handled and no connected
\* event before it
StoppedBeforeConnected ==
    /\ ~rt.connected_event
    /\ hist.terminal # None \/ StreamErrorStored

\* C32: if a terminal event or a stream read failure is handled before any
\* connected event, the Reader stops, the Orchestrator still waits for the
\* connect deadline (the wait for the connected signal can only time out), the
\* Result is error / timeout and not the stored error, and no command is sent.
C32_TerminalBeforeConnected ==
    StoppedBeforeConnected =>
        /\ reader.state = "done"
        /\ rt.completed_event
        /\ ~ENABLED Connected
        /\ pc = "wait_connected" => ENABLED ConnectTimeout
        /\ Len(sent) = 1 /\ sent[1].path = "GET /events"
        /\ post.state = "none"
        /\ AfterReturnStatement =>
              /\ hist.connect_timed_out
              /\ result.status = "error"
              /\ result.error_code = "timeout"

C32_Witness ==
    /\ pc = "returned"
    /\ StoppedBeforeConnected
    /\ hist.terminal = EvError
    /\ rt.error # None /\ rt.error.error_code = "bad_request"
    /\ result.error_code = "timeout"
    /\ Len(sent) = 1

\* the Reader has left its loop and the completion signal is not set: the
\* stream ended cleanly before any terminal event, and teardown has not begun
EndedCleanly == reader.state = "done" /\ ~rt.completed_event

\* the step in which an operation that waits for the terminal signal ends,
\* after such an end of the stream
EndsAfterCleanEnd ==
    /\ EndedCleanly
    /\ op.wait_sse_completion
    /\ pc # "finally" /\ pc' = "finally"

\* the end of the stream stores nothing and sets no signal; after it the loop
\* cannot be left for the completion signal
CleanEndStoresNothing ==
    /\ [][ReaderEndOfStream => rt' = rt /\ reader'.state = "done"
                                /\ result' = result /\ pc' = pc]_vars
    /\ []((EndedCleanly /\ op.wait_sse_completion) =>
             /\ ~ENABLED LoopBreakCompleted
             /\ ~ENABLED AfterLoop
             /\ hist.source # "build"
             /\ rt.error = None /\ rt.final_event = None)

\* C33 (as stated): when the stream ends cleanly before any terminal event, the
\* Reader exits without storing an error and without setting the completion
\* signal, so a command that requires an SSE wait ends only when the overall
\* deadline expires, with error_code timeout (the connect deadline counts as
\* a deadline here, when the stream ended before any connected event).
C33_CleanEndOnlyDeadline ==
    /\ CleanEndStoresNothing
    /\ [][EndsAfterCleanEnd =>
             /\ hist'.exit \in {"deadline", "connect_timeout"}
             /\ result'.status = "error"
             /\ result'.error_code = "timeout"]_vars

\* C33 (amended): after such an end of the stream the operation ends with an
\* error Result that is not built from the stored state: error_code timeout
\* when the connect deadline (no connected event was handled) or the overall
\* deadline expires, or the error of a POST /message that failed, at the check
\* of its answer in the polling loop, or unexpected_error when the answer to
\* the session call before POST /message is not a JSON object.
C33_CleanEndNeverBuilds ==
    /\ CleanEndStoresNothing
    /\ [][EndsAfterCleanEnd =>
             /\ hist'.source = "except"
             /\ result'.status = "error"
             /\ \/ /\ hist'.exit = "connect_timeout"
                   /\ ~rt.connected_event
                   /\ result'.error_code = "timeout"
                \/ /\ hist'.exit = "deadline"
                   /\ result'.error_code = "timeout"
                \/ /\ hist'.exit = "post_failed"
                   /\ post'.checked /\ PostFailed(post.outcome)
                   /\ result' = ExceptResult(LoopPostCheck(post.outcome), rt)
                \/ /\ hist'.exit = "session_call"
                   /\ post.state = "none"
                   /\ result'.error_code = "unexpected_error"]_vars

C33_Witness ==
    /\ pc = "finally"
    /\ EndedCleanly
    /\ op.kind = "chat"
    /\ reader.delivered = 2
    /\ hist.terminal = None
    /\ hist.exit = "deadline"
    /\ post.state = "done" /\ post.checked
    /\ result.error_code = "timeout"

\* the stored state after a failure inside the Reader of an operation that
\* was not complete
AfterReaderFailure(s) ==
    [s EXCEPT !.error = [error_code |-> "event_stream_error",
                         message |-> "stream read failed"],
              !.completed_event = TRUE]

\* C34: a data block that is valid JSON but not a JSON object is not discarded
\* like a malformed block: handling it fails inside the Reader, which stores
\* the error event_stream_error and sets the completion signal if the
\* completion signal was not set, and stops reading in either case.
C34_NonObjectFailsReader ==
    /\ [][ReaderDispatch(EvNonObject) =>
             /\ rt' = IF rt.completed_event THEN rt ELSE AfterReaderFailure(rt)
             /\ reader'.state = "done"
             /\ rt'.completed_event
             /\ UNCHANGED <<pc, result, handles>>]_vars
    /\ [](reader.state = "done" => \A ev \in StreamPool : ~ENABLED ReaderDispatch(ev))

\* the only block handled was JSON that is not an object: the error is stored,
\* the signal is set and the Reader has stopped, before any teardown
C34_Witness ==
    /\ pc = "wait_connected"
    /\ reader.state = "done" /\ reader.delivered = 1
    /\ ~hist.invalid_seen
    /\ rt = AfterReaderFailure(ResetRuntimeState(op.session_id, op.completion_events, <<>>))

-----------------------------------------------------------------------------
(* Properties of the session calls of an operation (specification Spec).   *)

\* the connected signal was seen and the session step is over
PastSessionStep ==
    /\ pc \in {"loop", "after_loop", "finally", "td_join", "td_close", "returned"}
    /\ hist.exit \notin {"open_failed", "connect_timeout"}

\* the sessionId of the POST /message payload: the supplied id, else the id of
\* the session that was created, else none
SessionIdToSend ==
    IF Truthy(op.session_id) THEN op.session_id ELSE hist.created

\* C35: session bind and session auto-creation are best-effort: whether POST
\* /session/load or POST /session/create fails, answers with a body that does
\* not tell success, or is not attempted because the connected event carried
\* no connection id, the operation does not end there with an error: POST
\* /message is issued next, with the supplied session id if one was given and
\* with no sessionId otherwise (unless a session was created).
C35_SessionCallsBestEffort ==
    PastSessionStep =>
        /\ hist.exit # "session_call"
        /\ sent[Len(sent)].path = "POST /message"
        /\ sent[Len(sent)].sessionId = SessionIdToSend
        /\ \A i \in 1..(Len(sent) - 1) : sent[i].path # "POST /message"

====
